---------------------------- MODULE Spec2Model ----------------------------
(***************************************************************************)
(* Model of the OpenAQ dashboard's API client (src/src/api/client.py) and  *)
(* its configuration (src/src/utils/config.py).                            *)
(*                                                                         *)
(* Time is counted in whole seconds.  Python strings are TLA+ strings,     *)
(* except the value of a response header, which int() parses and which is  *)
(* therefore a sequence of characters.  Python's None is the empty tuple   *)
(* and a supplied argument x is the one-element tuple <<x>>.               *)
(***************************************************************************)
EXTENDS Integers, Sequences, FiniteSets, TLC

(***************************************************************************)
(* Bounds of the model.                                                    *)
(***************************************************************************)
\* the clock stops advancing here
MaxTime == 140
\* calls of query methods in one behaviour of SpecQuery
MaxCalls == 1

(***************************************************************************)
(* Program constants.                                                      *)
(***************************************************************************)
\* Config.REQUESTS_PER_MINUTE
REQUESTS_PER_MINUTE == 60
\* Config.CACHE_TIMEOUT
CACHE_TIMEOUT == 300
\* the window length written in _check_rate_limit
WINDOW_SECONDS == 60
\* the default of response.headers.get('x-ratelimit-reset', 60)
DEFAULT_RESET == 60
\* the limit every listing request carries
DEFAULT_LIMIT == 1000

Threads == {1, 2}
\* the script thread of the single dashboard session of Spec and SpecQuery
MainThreads == {1}
\* the seconds by which the clock advances between two steps
Ticks == {20}

None == <<>>
Some(x) == <<x>>
IsNone(o) == o = <<>>

Max(a, b) == IF a >= b THEN a ELSE b

(***************************************************************************)
(* Python conversions.                                                     *)
(***************************************************************************)
\* the digits str() writes
DigitChars == <<"0", "1", "2", "3", "4", "5", "6", "7", "8", "9">>

(***************************************************************************)
(* int(s) of a str.  The text is a sequence of code points (48 is '0'),    *)
(* because int() tells characters apart that have no escape in a string:   *)
(* it strips the whitespace of the C locale and, of the characters above   *)
(* 127, every Unicode space, and it reads every Unicode decimal digit      *)
(* (category Nd) as its value.  The tables are those of the Unicode        *)
(* database of Python 3.11.                                                *)
(***************************************************************************)
\* the first code point of each run of ten decimal digits '0'..'9'
DigitZeros ==
    {48, 1632, 1776, 1984, 2406, 2534, 2662, 2790,
     2918, 3046, 3174, 3302, 3430, 3558, 3664, 3792,
     3872, 4160, 4240, 6112, 6160, 6470, 6608, 6784,
     6800, 6992, 7088, 7232, 7248, 42528, 43216, 43264,
     43472, 43504, 43600, 44016, 65296, 66720, 68912, 69734,
     69872, 69942, 70096, 70384, 70736, 70864, 71248, 71360,
     71472, 71904, 72016, 72784, 73040, 73120, 92768, 92864,
     93008, 120782, 120792, 120802, 120812, 120822, 123200, 123632,
     125264, 130032}

IsDigit(c) == \E z \in DigitZeros : z <= c /\ c <= z + 9

DigitValue(c) == c - (CHOOSE z \in DigitZeros : z <= c /\ c <= z + 9)

RECURSIVE DigitsValue(_)
DigitsValue(cs) ==
    IF Len(cs) = 0 THEN 0
    ELSE 10 * DigitsValue(SubSeq(cs, 1, Len(cs) - 1)) + DigitValue(cs[Len(cs)])

\* the characters int() drops at both ends: '\t' '\n' '\x0b' '\f' '\r' ' '
\* and the Unicode spaces above 127 ('\x1c'..'\x1f' are not among them)
Whitespace ==
    {9, 10, 11, 12, 13, 32, 133, 160,
     5760, 8192, 8193, 8194, 8195, 8196, 8197, 8198,
     8199, 8200, 8201, 8202, 8232, 8233, 8239, 8287,
     12288}

Underscore == 95
PlusSign == 43
MinusSign == 45

RECURSIVE LStripSpace(_)
LStripSpace(cs) ==
    IF Len(cs) > 0 /\ cs[1] \in Whitespace THEN LStripSpace(Tail(cs)) ELSE cs

RECURSIVE RStripSpace(_)
RStripSpace(cs) ==
    IF Len(cs) > 0 /\ cs[Len(cs)] \in Whitespace
    THEN RStripSpace(SubSeq(cs, 1, Len(cs) - 1)) ELSE cs

\* the digits of an integer literal: decimal digits, with single underscores
\* allowed between two digits
IsDigitGroup(cs) ==
    /\ Len(cs) > 0
    /\ IsDigit(cs[1]) /\ IsDigit(cs[Len(cs)])
    /\ \A i \in 1..Len(cs) : IsDigit(cs[i]) \/ cs[i] = Underscore
    /\ \A i \in 1..(Len(cs) - 1) : ~(cs[i] = Underscore /\ cs[i + 1] = Underscore)

NotUnderscore(c) == c # Underscore

\* int(s) of a str: surrounding whitespace, an optional sign and decimal
\* digits (underscores between digits allowed), ValueError otherwise.  The
\* value is a 32-bit integer here: a text of more than nine digits is
\* outside the model
PyInt(cs) ==
    LET stripped == RStripSpace(LStripSpace(cs))
        signed == Len(stripped) > 0 /\ stripped[1] \in {MinusSign, PlusSign}
        body == IF signed THEN Tail(stripped) ELSE stripped
        digits == SelectSeq(body, NotUnderscore)
    IN  IF IsDigitGroup(body)
        THEN [ok |-> TRUE,
              val |-> IF signed /\ stripped[1] = MinusSign
                      THEN 0 - DigitsValue(digits)
                      ELSE DigitsValue(digits)]
        ELSE [ok |-> FALSE, val |-> 0]

RECURSIVE NatStr(_)
NatStr(n) ==
    IF n < 10 THEN DigitChars[n + 1]
    ELSE NatStr(n \div 10) \o DigitChars[(n % 10) + 1]

\* str(n) of an int
IntStr(n) == IF n < 0 THEN "-" \o NatStr(0 - n) ELSE NatStr(n)

\* str(x) of the float x = tenths / 10 (one decimal place, as in 1.0 or -0.5)
FloatStr(tenths) ==
    LET a == IF tenths < 0 THEN 0 - tenths ELSE tenths
    IN  (IF tenths < 0 THEN "-" ELSE "")
            \o NatStr(a \div 10) \o "." \o DigitChars[(a % 10) + 1]

RECURSIVE Join(_, _)
\* sep.join(items) of a list of str
Join(items, sep) ==
    IF Len(items) = 0 THEN ""
    ELSE IF Len(items) = 1 THEN items[1]
    ELSE items[1] \o sep \o Join(Tail(items), sep)

RECURSIVE MapIntStr(_)
\* list(map(str, ids))
MapIntStr(ids) ==
    IF Len(ids) = 0 THEN <<>> ELSE <<IntStr(ids[1])>> \o MapIntStr(Tail(ids))

(***************************************************************************)
(* Python truthiness of an optional argument.                              *)
(***************************************************************************)
TruthyStr(o) == ~IsNone(o) /\ o[1] # ""
TruthyList(o) == ~IsNone(o) /\ Len(o[1]) > 0
TruthyInt(o) == ~IsNone(o) /\ o[1] # 0
TruthyTuple(o) == ~IsNone(o) /\ Len(o[1]) > 0

(***************************************************************************)
(* Params mappings: functions from keys to values.                         *)
(***************************************************************************)
EmptyParams == [k \in {} |-> ""]
Put(p, k, v) == [x \in (DOMAIN p) \cup {k} |-> IF x = k THEN v ELSE p[x]]
PutIf(c, p, k, v) == IF c THEN Put(p, k, v) ELSE p
HasKey(p, k) == k \in DOMAIN p

(***************************************************************************)
(* datetime.isoformat() of a datetime with microsecond = 0.                *)
(***************************************************************************)
Pad2(n) == IF n < 10 THEN "0" \o NatStr(n) ELSE NatStr(n)

Pad4(n) ==
    IF n < 10 THEN "000" \o NatStr(n)
    ELSE IF n < 100 THEN "00" \o NatStr(n)
    ELSE IF n < 1000 THEN "0" \o NatStr(n)
    ELSE NatStr(n)

IsoFormat(d) ==
    Pad4(d.year) \o "-" \o Pad2(d.month) \o "-" \o Pad2(d.day) \o "T"
        \o Pad2(d.hour) \o ":" \o Pad2(d.minute) \o ":" \o Pad2(d.second)

(***************************************************************************)
(* The query methods: the endpoint and the params each hands to            *)
(* _make_request.  A request is [endpoint, params]; params is None when    *)
(* the method passes no params argument.                                   *)
(***************************************************************************)
Request(endpoint, params) == [endpoint |-> endpoint, params |-> params]

\* Config.OPENAQ_BASE_URL, the default of the environment variable
OPENAQ_BASE_URL == "https://api.openaq.org/v3"

\* s starts with the character ch
StartsWith(s, ch) == Len(s) > 0 /\ SubSeq(s, 1, 1) = ch

RECURSIVE LStrip(_, _)
\* s.lstrip(ch): s without its leading run of the character ch
LStrip(s, ch) ==
    IF StartsWith(s, ch) THEN LStrip(SubSeq(s, 2, Len(s)), ch) ELSE s

\* the URL built by plain concatenation, f"{self.base_url}/{endpoint}"
UrlNoStrip(endpoint) == OPENAQ_BASE_URL \o "/" \o endpoint

\* line 50: url = f"{self.base_url}/{endpoint.lstrip('/')}"
Url(endpoint) == OPENAQ_BASE_URL \o "/" \o LStrip(endpoint, "/")

\* get_countries passing an empty params dict along with the endpoint
ReqCountriesWithParams == Request("countries", Some(EmptyParams))

\* get_countries
ReqCountries == Request("countries", None)

\* get_cities(country)
ReqCities(country) ==
    Request("cities",
            Some(PutIf(TruthyStr(country), EmptyParams, "countries", country[1])))

\* BBoxStr with the pairs of components swapped (latitude before longitude)
BBoxStrSwapped(b) ==
    FloatStr(b[2]) \o "," \o FloatStr(b[1]) \o ","
        \o FloatStr(b[4]) \o "," \o FloatStr(b[3])

\* the bbox text of get_locations
BBoxStr(b) ==
    FloatStr(b[1]) \o "," \o FloatStr(b[2]) \o ","
        \o FloatStr(b[3]) \o "," \o FloatStr(b[4])

\* get_locations(country, city, bbox)
ReqLocations(country, city, bbox) ==
    LET p0 == Put(EmptyParams, "limit", DEFAULT_LIMIT)
        p1 == PutIf(TruthyStr(country), p0, "countries", country[1])
        p2 == PutIf(TruthyStr(city), p1, "cities", city[1])
        p3 == IF TruthyTuple(bbox) THEN Put(p2, "bbox", BBoxStr(bbox[1])) ELSE p2
    IN  Request("locations", Some(p3))

\* get_parameters
ReqParameters == Request("parameters", None)

\* get_latest_measurements(location_ids, countries, parameters)
ReqLatest(location_ids, countries, parameters) ==
    LET p0 == Put(EmptyParams, "limit", DEFAULT_LIMIT)
        p1 == IF TruthyList(location_ids)
              THEN Put(p0, "locations", Join(MapIntStr(location_ids[1]), ","))
              ELSE p0
        p2 == IF TruthyList(countries)
              THEN Put(p1, "countries", Join(countries[1], ","))
              ELSE p1
        p3 == IF TruthyList(parameters)
              THEN Put(p2, "parameters", Join(parameters[1], ","))
              ELSE p2
    IN  Request("latest", Some(p3))

\* get_measurements(location_id, parameter, date_from, date_to, limit)
ReqMeasurements(location_id, parameter, date_from, date_to, limit) ==
    LET p0 == Put(Put(EmptyParams, "limit", limit), "sort", "datetime")
        p1 == PutIf(TruthyInt(location_id), p0, "locations", location_id[1])
        p2 == PutIf(TruthyStr(parameter), p1, "parameters", parameter[1])
        p3 == IF ~IsNone(date_from)
              THEN Put(p2, "date_from", IsoFormat(date_from[1])) ELSE p2
        p4 == IF ~IsNone(date_to)
              THEN Put(p3, "date_to", IsoFormat(date_to[1])) ELSE p3
    IN  Request("measurements", Some(p4))

\* get_location_measurements_aggregated with the period used as it is given,
\* without the plural 's' of the endpoint
ReqAggregatedSingular(location_id, parameter, period, date_from, date_to) ==
    LET p0 == Put(EmptyParams, "parameters", parameter)
        p1 == IF ~IsNone(date_from)
              THEN Put(p0, "date_from", IsoFormat(date_from[1])) ELSE p0
        p2 == IF ~IsNone(date_to)
              THEN Put(p1, "date_to", IsoFormat(date_to[1])) ELSE p1
    IN  Request("locations/" \o IntStr(location_id) \o "/measurements/" \o period,
                Some(p2))

\* get_location_measurements_aggregated(location_id, parameter, period,
\* date_from, date_to)
ReqAggregated(location_id, parameter, period, date_from, date_to) ==
    LET p0 == Put(EmptyParams, "parameters", parameter)
        p1 == IF ~IsNone(date_from)
              THEN Put(p0, "date_from", IsoFormat(date_from[1])) ELSE p0
        p2 == IF ~IsNone(date_to)
              THEN Put(p1, "date_to", IsoFormat(date_to[1])) ELSE p1
    IN  Request("locations/" \o IntStr(location_id) \o "/measurements/"
                    \o period \o "s",
                Some(p2))

\* the methods under @st.cache_data(ttl=Config.CACHE_TIMEOUT)
CachedMethods == {"get_countries", "get_cities", "get_locations", "get_parameters"}

\* a call is [method, args]; the request its body hands to _make_request
RequestOf(c) ==
    LET a == c.args
    IN  CASE c.method = "get_countries" -> ReqCountries
          [] c.method = "get_cities" -> ReqCities(a[1])
          [] c.method = "get_locations" -> ReqLocations(a[1], a[2], a[3])
          [] c.method = "get_parameters" -> ReqParameters
          [] c.method = "get_latest_measurements" -> ReqLatest(a[1], a[2], a[3])
          [] c.method = "get_measurements" ->
                ReqMeasurements(a[1], a[2], a[3], a[4], a[5])
          [] c.method = "get_location_measurements_aggregated" ->
                ReqAggregated(a[1], a[2], a[3], a[4], a[5])

Call(method, args) == [method |-> method, args |-> args]
NoCall == Call("", <<>>)

(***************************************************************************)
(* The HTTP layer: what one session.get can do.  An outcome is either a    *)
(* raised requests exception or a response [status, reset, body]; reset is *)
(* the 'x-ratelimit-reset' header (None when absent, else its characters). *)
(***************************************************************************)
\* a JSON object with a 'results' list
BodyResults(rs) == [kind |-> "object", has_results |-> TRUE, results |-> rs]
\* a JSON object without a 'results' key
BodyNoResults == [kind |-> "object", has_results |-> FALSE, results |-> <<>>]
\* valid JSON that is not an object (a list)
BodyArray == [kind |-> "array", has_results |-> FALSE, results |-> <<>>]
\* text that is not JSON
BodyInvalid == [kind |-> "invalid", has_results |-> FALSE, results |-> <<>>]

\* the {} that _make_request returns from its except clause
EmptyEnvelope == BodyNoResults

Response(status, reset, body) ==
    [raises |-> FALSE, status |-> status, reset |-> reset, body |-> body]
GetRaises == [raises |-> TRUE, status |-> 0, reset |-> None, body |-> BodyInvalid]
NoResponse == [raises |-> FALSE, status |-> 0, reset |-> None, body |-> BodyInvalid]

\* the outcomes drawn when the request pipeline is explored (Spec)
Outcomes ==
    { GetRaises,
      Response(200, None, BodyResults(<<"r1">>)),
      Response(200, None, BodyArray),
      Response(200, None, BodyInvalid),
      Response(429, None, BodyInvalid),
      Response(429, Some(<<50, 48>>), BodyInvalid),            \* '20'
      Response(429, Some(<<11, 50, 48, 160>>), BodyInvalid),   \* '\x0b20\xa0'
      Response(429, Some(<<97, 98, 99>>), BodyInvalid),        \* 'abc'
      Response(500, None, BodyInvalid) }

\* the outcomes drawn when the query methods are explored (SpecQuery)
QueryOutcomes ==
    { GetRaises,
      Response(200, None, BodyResults(<<"r1", "r2">>)),
      Response(200, None, BodyNoResults) }

\* the subclasses of requests.exceptions.RequestException that arise
RequestExceptions == {"ConnectionError", "HTTPError", "JSONDecodeError"}

\* an except clause that catches connection failures only
IsConnectionErrorOnly(e) == e = "ConnectionError"

\* except requests.exceptions.RequestException
IsRequestException(e) == e \in RequestExceptions

\* response.raise_for_status() raises HTTPError
RaiseForStatus(status) == 400 <= status /\ status < 600

\* a validate_api_key that accepts the empty key
ValidateAnyKey(key) == key \in {"", "key"}

(***************************************************************************)
(* Config.validate_api_key: TRUE when it returns, FALSE when it raises     *)
(* ValueError.                                                             *)
(***************************************************************************)
ValidateApiKey(key) == key # ""

\* a test of line 34 that rolls the window over only after more than 60 seconds
WindowOverLate(time, start) == time - start > WINDOW_SECONDS

\* _check_rate_limit, line 34: current_time - self.minute_start >= 60
WindowOver(time, start) == time - start >= WINDOW_SECONDS

\* a wait that adds the elapsed time instead of subtracting it
WaitTimePlus(time, start) == WINDOW_SECONDS + (time - start)

\* _check_rate_limit, line 40: wait_time = 60 - (current_time - self.minute_start)
WaitTime(time, start) == WINDOW_SECONDS - (time - start)

(***************************************************************************)
(* State.                                                                  *)
(***************************************************************************)
VARIABLES
    api_key,                \* Config.OPENAQ_API_KEY
    client,                 \* the resource get_openaq_client caches
    now,                    \* time.time()
    requests_this_minute,   \* OpenAQClient.requests_this_minute
    minute_start,           \* OpenAQClient.minute_start
    cache,                  \* st.cache_data: per method, its live entries
    pc,                     \* where each script thread is
    call,                   \* the query method call a thread is in
    reqs,                   \* the _make_request calls of that call, in order
    trace,                  \* what the call did: GETs, responses, sleeps, st.error
    resp,                   \* the local variable response
    exc,                    \* the exception being raised, "" when none
    reg,                    \* the value loaded by requests_this_minute += 1
    wake,                   \* when the thread's time.sleep ends
    data,                   \* what _make_request returned
    result,                 \* what the query method returned or raised
    ncalls,                 \* query method calls made so far
    obsStart,               \* start of the observed 60 s interval, -1: none
    obsCount,               \* GETs sent in the observed interval
    hist,                   \* the session's previous call of a memoized getter
    session_state,          \* st.session_state of each session
    rendered,               \* the plot call a handler is in: arguments and result
    current_time,           \* the value time.time() returned to _check_rate_limit
    sidebar                 \* render_sidebar: its local variables and how far it got

vars == <<api_key, client, now, requests_this_minute, minute_start, cache, pc,
          call, reqs, trace, resp, exc, reg, wake, data, result, ncalls,
          obsStart, obsCount, hist, session_state, rendered,
          current_time, sidebar>>

\* an entry of a call's trace: a GET sent (n: 1 or 2), a response (n: its status,
\* hint: its 'x-ratelimit-reset' header), a get that raised, a time.sleep (n: the
\* seconds asked for), an increment of requests_this_minute, an st.error
Ev(kind, n) == [ev |-> kind, n |-> n, hint |-> None]
EvResponse(o) == [ev |-> "response", n |-> o.status, hint |-> o.reset]
\* session.get(url, params=params) is entered for the n-th time in the call
EvGet(n, url) == [ev |-> "GET", n |-> n, hint |-> Some(url)]

NoResult == [kind |-> "none", value |-> <<>>, exc |-> ""]
Returned(list) == [kind |-> "list", value |-> list, exc |-> ""]
Raised(e) == [kind |-> "raised", value |-> <<>>, exc |-> e]

\* what is remembered of a session's calls of the memoized getters: the
\* previous call (what was called, what it returned or raised, whether it ran
\* the method body, whether its request failed, when it was made), when the current call was made, the
\* seconds passed outside a call since the last call ended (since; waited is
\* its value when the current call was made), and whether st.cache_data was
\* cleared since the current call was made (cleared) and between the previous
\* call and the current one (clearedBetween), and whether the script run
\* under way is a rerun, not the session's first run (rerun)
NoHist ==
    [prev |-> [call |-> NoCall, result |-> NoResult, requested |-> FALSE,
               failed |-> FALSE, started |-> 0],
     started |-> 0,
     since |-> 0,
     waited |-> 0,
     cleared |-> FALSE,
     clearedBetween |-> FALSE,
     rerun |-> FALSE]

\* st.session_state of a new session holds no key (a key it does not hold
\* reads None, as with st.session_state.get); no plot call is under way
NoSessionState ==
    [last_refresh |-> None, selected_country |-> None, selected_city |-> None,
     selected_pollutants |-> None, date_from |-> None, date_to |-> None]

\* render_sidebar has not begun: at is the widget it got to, the other
\* fields are its local variables
NoSidebar ==
    [at |-> "", selected_country |-> "", selected_city |-> "",
     selected_pollutants |-> <<>>, time_range |-> "", date_from |-> 0,
     date_to |-> 0]

NoRender == [fn |-> "", input |-> <<>>, out |-> <<>>, exc |-> ""]

Init ==
    /\ api_key \in {"", "key"}
    /\ client = "none"
    /\ now = 0
    /\ requests_this_minute = 0
    /\ minute_start = 0
    /\ cache = [m \in CachedMethods |-> {}]
    /\ pc = [t \in Threads |-> "start"]
    /\ call = [t \in Threads |-> NoCall]
    /\ reqs = [t \in Threads |-> <<>>]
    /\ trace = [t \in Threads |-> <<>>]
    /\ resp = [t \in Threads |-> NoResponse]
    /\ exc = [t \in Threads |-> ""]
    /\ reg = [t \in Threads |-> 0]
    /\ wake = [t \in Threads |-> 0]
    /\ data = [t \in Threads |-> EmptyEnvelope]
    /\ result = [t \in Threads |-> NoResult]
    /\ ncalls = 0
    /\ obsStart = -1
    /\ obsCount = 0
    /\ hist = NoHist
    /\ session_state = [t \in Threads |-> NoSessionState]
    /\ rendered = NoRender
    /\ current_time = [t \in Threads |-> 0]
    /\ sidebar = [t \in Threads |-> NoSidebar]

\* @st.cache_data without ttl: an entry never expires
LiveWithoutTtl(e) == e.at <= now

(***************************************************************************)
(* st.cache_data: an entry [args, value, at] of a method is live until     *)
(* CACHE_TIMEOUT seconds after it was stored.                              *)
(***************************************************************************)
Live(e) == now < e.at + CACHE_TIMEOUT

CacheHits(c) ==
    IF c.method \in CachedMethods
    THEN {e \in cache[c.method] : e.args = c.args /\ Live(e)}
    ELSE {}

CacheStore(c, value) ==
    IF c.method \in CachedMethods
    THEN [cache EXCEPT ![c.method] =
            {e \in @ : e.args # c.args}
                \cup {[args |-> c.args, value |-> value, at |-> now]}]
    ELSE cache

\* get_openaq_client without @st.cache_resource: every script run constructs
\* a client of its own, with a fresh RateWindow
GetOpenAQClientUncached(t) ==
    /\ pc[t] = "start"
    /\ IF ValidateApiKey(api_key)
       THEN /\ client' = "ready"
            /\ requests_this_minute' = 0
            /\ minute_start' = now
            /\ pc' = [pc EXCEPT ![t] = "init"]
            /\ UNCHANGED trace
       ELSE /\ trace' = [trace EXCEPT ![t] = Append(@, Ev("st.error", 0))]
            /\ pc' = [pc EXCEPT ![t] = "stopped"]
            /\ UNCHANGED <<client, requests_this_minute, minute_start>>
    /\ UNCHANGED <<api_key, now, cache, call, reqs, resp, exc, reg, wake, data,
                   result, ncalls, obsStart, obsCount, hist, session_state,
                   rendered, current_time, sidebar>>

(***************************************************************************)
(* get_openaq_client, as AirQualityDashboard.__init__ calls it at the      *)
(* start of a script run: the cached client, or a new one once the key     *)
(* validates, or st.error and st.stop.                                     *)
(***************************************************************************)
GetOpenAQClient(t) ==
    /\ pc[t] = "start"
    /\ IF client = "ready"
       THEN /\ pc' = [pc EXCEPT ![t] = "init"]
            /\ UNCHANGED <<client, requests_this_minute, minute_start, trace>>
       ELSE IF ValidateApiKey(api_key)
       THEN /\ client' = "ready"
            /\ requests_this_minute' = 0
            /\ minute_start' = now
            /\ pc' = [pc EXCEPT ![t] = "init"]
            /\ UNCHANGED trace
       ELSE /\ trace' = [trace EXCEPT ![t] = Append(@, Ev("st.error", 0))]
            /\ pc' = [pc EXCEPT ![t] = "stopped"]
            /\ UNCHANGED <<client, requests_this_minute, minute_start>>
    /\ UNCHANGED <<api_key, now, cache, call, reqs, resp, exc, reg, wake, data,
                   result, ncalls, obsStart, obsCount, hist, session_state,
                   rendered, current_time, sidebar>>

\* __init__ without the "'last_refresh' not in st.session_state" test: every
\* script run stamps last_refresh
InitSessionStateAlways(t) ==
    /\ pc[t] = "init"
    /\ session_state' = [session_state EXCEPT ![t].last_refresh = Some(now)]
    /\ pc' = [pc EXCEPT ![t] = "idle"]
    /\ UNCHANGED <<api_key, client, now, requests_this_minute, minute_start,
                   cache, call, reqs, trace, resp, exc, reg, wake, data, result,
                   ncalls, obsStart, obsCount, hist, rendered, current_time,
                   sidebar>>

\* AirQualityDashboard.__init__, app.py lines 57-61, once get_openaq_client
\* has returned the client: last_refresh is set to datetime.now() if the
\* session has none (selected_locations, which nothing reads, is left out)
InitSessionState(t) ==
    /\ pc[t] = "init"
    /\ session_state' =
            IF IsNone(session_state[t].last_refresh)
            THEN [session_state EXCEPT ![t].last_refresh = Some(now)]
            ELSE session_state
    /\ pc' = [pc EXCEPT ![t] = "idle"]
    /\ UNCHANGED <<api_key, client, now, requests_this_minute, minute_start,
                   cache, call, reqs, trace, resp, exc, reg, wake, data, result,
                   ncalls, obsStart, obsCount, hist, rendered, current_time,
                   sidebar>>

(***************************************************************************)
(* AirQualityDashboard.__init__, app.py lines 52-61, in its two steps:     *)
(* line 54 obtains the client (a new client reads time.time() for its      *)
(* minute_start; st.stop ends the run there when the key is missing), and  *)
(* lines 57-61 read datetime.now() for last_refresh.  Time can pass        *)
(* between the two.                                                        *)
(***************************************************************************)
DashboardInit(t) ==
    \/ GetOpenAQClient(t)
    \/ InitSessionState(t)

(***************************************************************************)
(* main(), app.py lines 562-564: an exception that left a query method     *)
(* leaves __init__ or run as well and is caught by 'except Exception':     *)
(* st.error("Application error: ...") and st.info are shown and the run    *)
(* ends.  (st.stop and st.rerun are not Exceptions and pass through.)      *)
(***************************************************************************)
MainExcept(t) ==
    /\ pc[t] = "done"
    /\ result[t].kind = "raised"
    /\ trace' = [trace EXCEPT ![t] =
                    @ \o <<Ev("st.error", 1), Ev("st.info", 0)>>]
    /\ pc' = [pc EXCEPT ![t] = "failed"]
    /\ UNCHANGED <<api_key, client, now, requests_this_minute, minute_start,
                   cache, call, reqs, resp, exc, reg, wake, data, result,
                   ncalls, obsStart, obsCount, hist, session_state, rendered, current_time,
                   sidebar>>

\* the framework runs the script again, after the run before it has ended
Rerun(t) ==
    /\ pc[t] \in {"idle", "done", "stopped", "failed"}
    /\ pc[t] = "done" => result[t].kind # "raised"
    /\ pc' = [pc EXCEPT ![t] = "start"]
    /\ call' = [call EXCEPT ![t] = NoCall]
    /\ reqs' = [reqs EXCEPT ![t] = <<>>]
    /\ trace' = [trace EXCEPT ![t] = <<>>]
    /\ resp' = [resp EXCEPT ![t] = NoResponse]
    /\ exc' = [exc EXCEPT ![t] = ""]
    /\ reg' = [reg EXCEPT ![t] = 0]
    /\ wake' = [wake EXCEPT ![t] = 0]
    /\ current_time' = [current_time EXCEPT ![t] = 0]
    /\ data' = [data EXCEPT ![t] = EmptyEnvelope]
    /\ result' = [result EXCEPT ![t] = NoResult]
    /\ sidebar' = [sidebar EXCEPT ![t] = NoSidebar]
    /\ UNCHANGED <<api_key, client, now, requests_this_minute, minute_start,
                   cache, ncalls, obsStart, obsCount,
                   session_state, rendered>>

(***************************************************************************)
(* A query method is called: a memoized method with a live entry returns   *)
(* it; otherwise the body builds its request and enters _make_request.     *)
(***************************************************************************)
CallMethod(t, c) ==
    /\ pc[t] \in {"idle", "done"}
    /\ result[t].kind # "raised"
    /\ call' = [call EXCEPT ![t] = c]
    /\ trace' = [trace EXCEPT ![t] = <<>>]
    /\ resp' = [resp EXCEPT ![t] = NoResponse]
    /\ exc' = [exc EXCEPT ![t] = ""]
    /\ reg' = [reg EXCEPT ![t] = 0]
    /\ wake' = [wake EXCEPT ![t] = 0]
    /\ current_time' = [current_time EXCEPT ![t] = 0]
    /\ data' = [data EXCEPT ![t] = EmptyEnvelope]
    /\ IF CacheHits(c) # {}
       THEN /\ result' = [result EXCEPT ![t] =
                            Returned((CHOOSE e \in CacheHits(c) : TRUE).value)]
            /\ reqs' = [reqs EXCEPT ![t] = <<>>]
            /\ pc' = [pc EXCEPT ![t] = "done"]
       ELSE /\ result' = [result EXCEPT ![t] = NoResult]
            /\ reqs' = [reqs EXCEPT ![t] = <<RequestOf(c)>>]
            /\ pc' = [pc EXCEPT ![t] = "check"]
    /\ UNCHANGED <<api_key, client, now, requests_this_minute, minute_start,
                   cache, obsStart, obsCount,
                   session_state, rendered, sidebar>>

\* _check_rate_limit, line 31: current_time = time.time()
RateReadTime(t) ==
    /\ pc[t] = "check"
    /\ current_time' = [current_time EXCEPT ![t] = now]
    /\ pc' = [pc EXCEPT ![t] = "window"]
    /\ UNCHANGED <<requests_this_minute, minute_start, trace, wake>>
    /\ UNCHANGED <<api_key, client, now, cache, call, reqs, resp, exc, reg, data,
                   result, ncalls, obsStart, obsCount, hist, session_state,
                   rendered, sidebar>>

\* line 34: self.minute_start is read and the age of the window tested
RateTestWindow(t) ==
    /\ pc[t] = "window"
    /\ pc' = [pc EXCEPT ![t] = IF WindowOver(current_time[t], minute_start)
                               THEN "roll_count" ELSE "budget"]
    /\ UNCHANGED <<requests_this_minute, minute_start, trace, wake,
                   current_time>>
    /\ UNCHANGED <<api_key, client, now, cache, call, reqs, resp, exc, reg, data,
                   result, ncalls, obsStart, obsCount, hist, session_state,
                   rendered, sidebar>>

\* line 35: self.requests_this_minute = 0
RateRollCount(t) ==
    /\ pc[t] = "roll_count"
    /\ requests_this_minute' = 0
    /\ pc' = [pc EXCEPT ![t] = "roll_start"]
    /\ UNCHANGED <<minute_start, trace, wake, current_time>>
    /\ UNCHANGED <<api_key, client, now, cache, call, reqs, resp, exc, reg, data,
                   result, ncalls, obsStart, obsCount, hist, session_state,
                   rendered, sidebar>>

\* line 36: self.minute_start = current_time
RateRollStart(t) ==
    /\ pc[t] = "roll_start"
    /\ minute_start' = current_time[t]
    /\ pc' = [pc EXCEPT ![t] = "budget"]
    /\ UNCHANGED <<requests_this_minute, trace, wake, current_time>>
    /\ UNCHANGED <<api_key, client, now, cache, call, reqs, resp, exc, reg, data,
                   result, ncalls, obsStart, obsCount, hist, session_state,
                   rendered, sidebar>>

\* line 39: self.requests_this_minute is read and tested against the budget;
\* below it the function returns
RateTestBudget(t) ==
    /\ pc[t] = "budget"
    /\ IF requests_this_minute >= REQUESTS_PER_MINUTE
       THEN /\ pc' = [pc EXCEPT ![t] = "wait"]
            /\ UNCHANGED current_time
       ELSE /\ pc' = [pc EXCEPT ![t] = "send1"]
            /\ current_time' = [current_time EXCEPT ![t] = 0]
    /\ UNCHANGED <<requests_this_minute, minute_start, trace, wake>>
    /\ UNCHANGED <<api_key, client, now, cache, call, reqs, resp, exc, reg, data,
                   result, ncalls, obsStart, obsCount, hist, session_state,
                   rendered, sidebar>>

\* lines 40-42: self.minute_start is read for wait_time; time.sleep(wait_time)
\* is entered when it is positive, otherwise the function returns
RateWait(t) ==
    /\ pc[t] = "wait"
    /\ LET wait_time == WaitTime(current_time[t], minute_start)
       IN  IF wait_time > 0
           THEN /\ trace' = [trace EXCEPT ![t] = Append(@, Ev("sleep", wait_time))]
                /\ wake' = [wake EXCEPT ![t] = now + wait_time]
                /\ pc' = [pc EXCEPT ![t] = "rate_sleep"]
                /\ UNCHANGED current_time
           ELSE /\ pc' = [pc EXCEPT ![t] = "send1"]
                /\ current_time' = [current_time EXCEPT ![t] = 0]
                /\ UNCHANGED <<trace, wake>>
    /\ UNCHANGED <<requests_this_minute, minute_start>>
    /\ UNCHANGED <<api_key, client, now, cache, call, reqs, resp, exc, reg, data,
                   result, ncalls, obsStart, obsCount, hist, session_state,
                   rendered, sidebar>>

\* line 42: time.sleep(wait_time) returns
RateSleepWake(t) ==
    /\ pc[t] = "rate_sleep"
    /\ Max(now, wake[t]) <= MaxTime
    /\ now' = Max(now, wake[t])
    /\ pc' = [pc EXCEPT ![t] = "reset_count"]
    /\ UNCHANGED <<requests_this_minute, minute_start, trace, wake,
                   current_time>>
    /\ UNCHANGED <<api_key, client, cache, call, reqs, resp, exc, reg, data,
                   result, ncalls, obsStart, obsCount, hist, session_state,
                   rendered, sidebar>>

\* a line 43 that leaves the counter as it is
RateResetCountKept(t) ==
    /\ pc[t] = "reset_count"
    /\ pc' = [pc EXCEPT ![t] = "reset_read"]
    /\ UNCHANGED <<requests_this_minute, minute_start, trace, wake,
                   current_time>>
    /\ UNCHANGED <<api_key, client, now, cache, call, reqs, resp, exc, reg, data,
                   result, ncalls, obsStart, obsCount, hist, session_state,
                   rendered, sidebar>>

\* line 43: self.requests_this_minute = 0
RateResetCount(t) ==
    /\ pc[t] = "reset_count"
    /\ requests_this_minute' = 0
    /\ pc' = [pc EXCEPT ![t] = "reset_read"]
    /\ UNCHANGED <<minute_start, trace, wake, current_time>>
    /\ UNCHANGED <<api_key, client, now, cache, call, reqs, resp, exc, reg, data,
                   result, ncalls, obsStart, obsCount, hist, session_state,
                   rendered, sidebar>>

\* line 44, right-hand side: time.time() is called
RateResetRead(t) ==
    /\ pc[t] = "reset_read"
    /\ current_time' = [current_time EXCEPT ![t] = now]
    /\ pc' = [pc EXCEPT ![t] = "reset_start"]
    /\ UNCHANGED <<requests_this_minute, minute_start, trace, wake>>
    /\ UNCHANGED <<api_key, client, now, cache, call, reqs, resp, exc, reg, data,
                   result, ncalls, obsStart, obsCount, hist, session_state,
                   rendered, sidebar>>

\* line 44: the value is stored in self.minute_start; the function returns
RateResetStart(t) ==
    /\ pc[t] = "reset_start"
    /\ minute_start' = current_time[t]
    /\ current_time' = [current_time EXCEPT ![t] = 0]
    /\ pc' = [pc EXCEPT ![t] = "send1"]
    /\ UNCHANGED <<requests_this_minute, trace, wake>>
    /\ UNCHANGED <<api_key, client, now, cache, call, reqs, resp, exc, reg, data,
                   result, ncalls, obsStart, obsCount, hist, session_state,
                   rendered, sidebar>>

(***************************************************************************)
(* _check_rate_limit, lines 29-44, one read or write of the shared client  *)
(* at a time: nothing in it is atomic.                                     *)
(***************************************************************************)
CheckRateLimitStep(t) ==
    /\ pc[t] \in {"check", "window", "roll_count", "roll_start", "budget",
                  "wait", "reset_count", "reset_read", "reset_start"}
    /\ \/ RateReadTime(t)
       \/ RateTestWindow(t)
       \/ RateRollCount(t)
       \/ RateRollStart(t)
       \/ RateTestBudget(t)
       \/ RateWait(t)
       \/ RateResetCount(t)
       \/ RateResetRead(t)
       \/ RateResetStart(t)

\* a session.get that does not block: the GET is sent again while the first
\* one is still unanswered
SendGetEarly(t) ==
    /\ pc[t] \in {"send1", "send2", "wait1"}
    /\ trace' = [trace EXCEPT ![t] =
                    Append(@, EvGet(IF pc[t] = "send1" THEN 1 ELSE 2,
                                    Url(reqs[t][1].endpoint)))]
    /\ pc' = [pc EXCEPT ![t] = IF pc[t] = "send1" THEN "wait1" ELSE "wait2"]
    /\ obsCount' = IF /\ obsStart >= 0
                      /\ now - obsStart < WINDOW_SECONDS
                      /\ obsCount <= REQUESTS_PER_MINUTE
                   THEN obsCount + 1 ELSE obsCount
    /\ UNCHANGED <<api_key, client, now, requests_this_minute, minute_start,
                   cache, call, reqs, resp, exc, reg, wake, data, result,
                   ncalls, obsStart, hist,
                   session_state, rendered, current_time, sidebar>>

\* session.get is entered (line 53, or line 60 for the retry): a GET leaves
SendGet(t) ==
    /\ pc[t] \in {"send1", "send2"}
    /\ trace' = [trace EXCEPT ![t] =
                    Append(@, EvGet(IF pc[t] = "send1" THEN 1 ELSE 2,
                                    Url(reqs[t][1].endpoint)))]
    /\ pc' = [pc EXCEPT ![t] = IF pc[t] = "send1" THEN "wait1" ELSE "wait2"]
    /\ obsCount' = IF /\ obsStart >= 0
                      /\ now - obsStart < WINDOW_SECONDS
                      /\ obsCount <= REQUESTS_PER_MINUTE
                   THEN obsCount + 1 ELSE obsCount
    /\ UNCHANGED <<api_key, client, now, requests_this_minute, minute_start,
                   cache, call, reqs, resp, exc, reg, wake, data, result,
                   ncalls, obsStart, hist,
                   session_state, rendered, current_time, sidebar>>

\* session.get returns a response or raises
Receive(t, o) ==
    /\ pc[t] \in {"wait1", "wait2"}
    /\ IF o.raises
       THEN /\ exc' = [exc EXCEPT ![t] = "ConnectionError"]
            /\ trace' = [trace EXCEPT ![t] = Append(@, Ev("raise", 0))]
            /\ pc' = [pc EXCEPT ![t] = "except"]
            /\ UNCHANGED resp
       ELSE /\ resp' = [resp EXCEPT ![t] = o]
            /\ trace' = [trace EXCEPT ![t] = Append(@, EvResponse(o))]
            /\ pc' = [pc EXCEPT ![t] =
                        IF pc[t] = "wait1" THEN "incr_load" ELSE "finish"]
            /\ UNCHANGED exc
    /\ UNCHANGED <<api_key, client, now, requests_this_minute, minute_start,
                   cache, call, reqs, reg, wake, data, result, ncalls,
                   obsStart, obsCount, hist,
                   session_state, rendered, current_time, sidebar>>

\* self.requests_this_minute += 1 (line 54): the read
IncrLoad(t) ==
    /\ pc[t] = "incr_load"
    /\ reg' = [reg EXCEPT ![t] = requests_this_minute]
    /\ pc' = [pc EXCEPT ![t] = "incr_store"]
    /\ UNCHANGED <<api_key, client, now, requests_this_minute, minute_start,
                   cache, call, reqs, trace, resp, exc, wake, data, result,
                   ncalls, obsStart, obsCount, hist,
                   session_state, rendered, current_time, sidebar>>

\* self.requests_this_minute += 1 (line 54): the write
IncrStore(t) ==
    /\ pc[t] = "incr_store"
    /\ requests_this_minute' = reg[t] + 1
    /\ trace' = [trace EXCEPT ![t] = Append(@, Ev("incr", 1))]
    /\ pc' = [pc EXCEPT ![t] = "status"]
    /\ UNCHANGED <<api_key, client, now, minute_start, cache, call, reqs, resp,
                   exc, reg, wake, data, result, ncalls, obsStart, obsCount,
                   hist,
                   session_state, rendered, current_time, sidebar>>

\* the seconds of the 429 sleep: int(headers.get('x-ratelimit-reset', 60))
ResetTime(reset) ==
    IF IsNone(reset) THEN [ok |-> TRUE, val |-> DEFAULT_RESET] ELSE PyInt(reset[1])

\* lines 57-59: on status 429 read the reset hint and go to sleep; int() of a
\* non-numeric hint and time.sleep of a negative one raise ValueError
HandleStatus(t) ==
    /\ pc[t] = "status"
    /\ IF resp[t].status = 429
       THEN LET r == ResetTime(resp[t].reset)
            IN  IF r.ok /\ r.val >= 0
                THEN /\ trace' = [trace EXCEPT ![t] = Append(@, Ev("sleep", r.val))]
                     /\ wake' = [wake EXCEPT ![t] = now + r.val]
                     /\ pc' = [pc EXCEPT ![t] = "retry_sleep"]
                     /\ UNCHANGED exc
                ELSE /\ exc' = [exc EXCEPT ![t] = "ValueError"]
                     /\ pc' = [pc EXCEPT ![t] = "except"]
                     /\ UNCHANGED <<trace, wake>>
       ELSE /\ pc' = [pc EXCEPT ![t] = "finish"]
            /\ UNCHANGED <<trace, wake, exc>>
    /\ UNCHANGED <<api_key, client, now, requests_this_minute, minute_start,
                   cache, call, reqs, resp, reg, data, result, ncalls,
                   obsStart, obsCount, hist,
                   session_state, rendered, current_time, sidebar>>

\* line 59: the 429 sleep ends
RetrySleepWake(t) ==
    /\ pc[t] = "retry_sleep"
    /\ Max(now, wake[t]) <= MaxTime
    /\ now' = Max(now, wake[t])
    /\ pc' = [pc EXCEPT ![t] = "send2"]
    /\ UNCHANGED <<api_key, client, requests_this_minute, minute_start, cache,
                   call, reqs, trace, resp, exc, reg, wake, data, result,
                   ncalls, obsStart, obsCount, hist,
                   session_state, rendered, current_time, sidebar>>

\* lines 62-63: raise_for_status, then response.json(), whose JSONDecodeError
\* is a RequestException (requests 2.27 and later)
Finish(t) ==
    /\ pc[t] = "finish"
    /\ IF RaiseForStatus(resp[t].status)
       THEN /\ exc' = [exc EXCEPT ![t] = "HTTPError"]
            /\ pc' = [pc EXCEPT ![t] = "except"]
            /\ UNCHANGED data
       ELSE IF resp[t].body.kind = "invalid"
       THEN /\ exc' = [exc EXCEPT ![t] = "JSONDecodeError"]
            /\ pc' = [pc EXCEPT ![t] = "except"]
            /\ UNCHANGED data
       ELSE /\ data' = [data EXCEPT ![t] = resp[t].body]
            /\ pc' = [pc EXCEPT ![t] = "unwrap"]
            /\ UNCHANGED exc
    /\ UNCHANGED <<api_key, client, now, requests_this_minute, minute_start,
                   cache, call, reqs, trace, resp, reg, wake, result, ncalls,
                   obsStart, obsCount, hist,
                   session_state, rendered, current_time, sidebar>>

\* lines 65-67: a RequestException is reported and {} returned; any other
\* exception leaves _make_request and the query method
Except(t) ==
    /\ pc[t] = "except"
    /\ IF IsRequestException(exc[t])
       THEN /\ trace' = [trace EXCEPT ![t] = Append(@, Ev("st.error", 0))]
            /\ data' = [data EXCEPT ![t] = EmptyEnvelope]
            /\ exc' = [exc EXCEPT ![t] = ""]
            /\ pc' = [pc EXCEPT ![t] = "unwrap"]
            /\ UNCHANGED result
       ELSE /\ result' = [result EXCEPT ![t] = Raised(exc[t])]
            /\ pc' = [pc EXCEPT ![t] = "done"]
            /\ UNCHANGED <<trace, data, exc>>
    /\ UNCHANGED <<api_key, client, now, requests_this_minute, minute_start,
                   cache, call, reqs, resp, reg, wake, ncalls, obsStart,
                   obsCount, hist,
                   session_state, rendered, current_time, sidebar>>

\* data['results'] in place of data.get('results', []): an envelope without
\* the key raises
UnwrappedByIndex(d) ==
    IF d.kind = "object"
    THEN IF d.has_results THEN Returned(d.results) ELSE Raised("KeyError")
    ELSE Raised("TypeError")

\* data.get('results', []) of an envelope; .get of a non-dict raises
Unwrapped(d) ==
    IF d.kind = "object"
    THEN Returned(IF d.has_results THEN d.results ELSE <<>>)
    ELSE Raised("AttributeError")

\* the query method's return data.get('results', []); a memoized method's
\* return value is stored
Unwrap(t) ==
    /\ pc[t] = "unwrap"
    /\ result' = [result EXCEPT ![t] = Unwrapped(data[t])]
    /\ cache' = IF Unwrapped(data[t]).kind = "list"
                THEN CacheStore(call[t], Unwrapped(data[t]).value)
                ELSE cache
    /\ pc' = [pc EXCEPT ![t] = "done"]
    /\ UNCHANGED <<api_key, client, now, requests_this_minute, minute_start,
                   call, reqs, trace, resp, exc, reg, wake, data, ncalls,
                   obsStart, obsCount, hist,
                   session_state, rendered, current_time, sidebar>>

\* time passes; the clock's origin is the start of the first script run
Tick(d) ==
    /\ \E t \in Threads : pc[t] # "start"
    /\ now + d <= MaxTime
    /\ now' = now + d
    /\ UNCHANGED <<api_key, client, requests_this_minute, minute_start, cache,
                   pc, call, reqs, trace, resp, exc, reg, wake, data, result,
                   ncalls, obsStart, obsCount, hist,
                   session_state, rendered, current_time, sidebar>>

\* the steps of a call in progress
CallStep(t) ==
    \/ CheckRateLimitStep(t)
    \/ RateSleepWake(t)
    \/ SendGet(t)
    \/ IncrLoad(t)
    \/ IncrStore(t)
    \/ HandleStatus(t)
    \/ RetrySleepWake(t)
    \/ Finish(t)
    \/ Except(t)
    \/ Unwrap(t)

(***************************************************************************)
(* Spec: one dashboard session whose script calls the client again and     *)
(* again while time passes; every outcome of the HTTP layer is drawn.      *)
(***************************************************************************)
RateCalls == {Call("get_latest_measurements", <<None, None, None>>)}

\* a rerun of a session whose calls are not recorded
SessionRerun(t) == Rerun(t) /\ UNCHANGED hist

FreeCall(t, c) == CallMethod(t, c) /\ UNCHANGED <<ncalls, hist>>

Next ==
    \/ \E t \in MainThreads : DashboardInit(t)
    \/ \E t \in MainThreads : SessionRerun(t)
    \/ \E t \in MainThreads : \E c \in RateCalls : FreeCall(t, c)
    \/ \E t \in MainThreads : CallStep(t)
    \/ \E t \in MainThreads : MainExcept(t)
    \/ \E t \in MainThreads : \E o \in Outcomes : Receive(t, o)
    \/ \E d \in Ticks : Tick(d)

Spec == Init /\ [][Next]_vars

(***************************************************************************)
(* SpecQuery: the query methods over their arguments.  A behaviour makes   *)
(* at most MaxCalls calls, so the per-minute budget is never exhausted and *)
(* the rate limiter never sleeps; the HTTP layer answers 200 or raises.    *)
(***************************************************************************)
StrArgs == {None, Some(""), Some("US")}
CityArgs == {None, Some("Paris")}
\* bounding boxes, each component in tenths
BBoxArgs == {None, Some(<<10, 20, 30, 40>>), Some(<<-5, 513, 3, 517>>)}
IdListArgs == {None, Some(<<>>), Some(<<1>>), Some(<<1, 2>>), Some(<<2, 1>>)}
CountryListArgs == {None, Some(<<>>), Some(<<"US">>), Some(<<"US", "GB">>)}
ParameterListArgs == {None, Some(<<"pm25">>), Some(<<"pm25", "no2">>)}
IdArgs == {None, Some(0), Some(1)}
ParameterArgs == {None, Some("pm25")}
DateTime(y, mo, d, h, mi, sec) ==
    [year |-> y, month |-> mo, day |-> d, hour |-> h, minute |-> mi, second |-> sec]
DateFromArgs == {None, Some(DateTime(2024, 1, 1, 0, 0, 0))}
DateToArgs == {None, Some(DateTime(2024, 1, 2, 13, 5, 9))}
LimitArgs == {DEFAULT_LIMIT, 500}
PeriodArgs == {"hour", "day"}

Methods ==
    {"get_countries", "get_cities", "get_locations", "get_parameters",
     "get_latest_measurements", "get_measurements",
     "get_location_measurements_aggregated"}

\* the calls of method m that SpecQuery makes
QueryCalls(m) ==
    CASE m = "get_countries" -> {Call(m, <<>>)}
      [] m = "get_parameters" -> {Call(m, <<>>)}
      [] m = "get_cities" -> {Call(m, <<c>>) : c \in StrArgs}
      [] m = "get_locations" ->
            {Call(m, <<c, ci, b>>) : c \in StrArgs, ci \in CityArgs, b \in BBoxArgs}
      [] m = "get_latest_measurements" ->
            {Call(m, <<l, c, p>>) :
                l \in IdListArgs, c \in CountryListArgs, p \in ParameterListArgs}
      [] m = "get_measurements" ->
            {Call(m, <<l, p, f, u, n>>) :
                l \in IdArgs, p \in ParameterArgs, f \in DateFromArgs,
                u \in DateToArgs, n \in LimitArgs}
      [] m = "get_location_measurements_aggregated" ->
            {Call(m, <<l, p, per, f, u>>) :
                l \in {1, 2}, p \in {"pm25"}, per \in PeriodArgs,
                f \in DateFromArgs, u \in DateToArgs}

BoundedCall(t, c) ==
    /\ ncalls < MaxCalls
    /\ CallMethod(t, c)
    /\ ncalls' = ncalls + 1
    /\ UNCHANGED hist

\* the steps of a call that neither waits for the budget nor meets a 429
QueryStep(t) ==
    \/ CheckRateLimitStep(t)
    \/ SendGet(t)
    \/ IncrLoad(t)
    \/ IncrStore(t)
    \/ HandleStatus(t)
    \/ Finish(t)
    \/ Except(t)
    \/ Unwrap(t)

NextQuery ==
    \/ \E t \in MainThreads : DashboardInit(t)
    \/ \E t \in MainThreads : SessionRerun(t)
    \/ \E t \in MainThreads : \E m \in Methods : \E c \in QueryCalls(m) :
            BoundedCall(t, c)
    \/ \E t \in MainThreads : QueryStep(t)
    \/ \E t \in MainThreads : \E o \in QueryOutcomes : Receive(t, o)

SpecQuery == Init /\ [][NextQuery]_vars

(***************************************************************************)
(* SpecWindow: a session that calls the client while every GET is answered *)
(* 200, with an observer that picks one GET and counts the GETs sent in    *)
(* the 60 seconds that start with it.  (An interval of 60 seconds that     *)
(* holds n GETs can be moved to start at its first GET and still holds     *)
(* them.)  The count stops one past the budget, and the clock at          *)
(* MaxWindowTime.                                                          *)
(***************************************************************************)
MaxWindowTime == 80

WindowTick(d) == now + d <= MaxWindowTime /\ Tick(d)

WindowOutcomes == {Response(200, None, BodyResults(<<"r1">>))}

Observe ==
    /\ obsStart = -1
    /\ \E t \in MainThreads : pc[t] = "send1"
    /\ obsStart' = now
    /\ UNCHANGED <<api_key, client, now, requests_this_minute, minute_start,
                   cache, pc, call, reqs, trace, resp, exc, reg, wake, data,
                   result, ncalls, obsCount, hist,
                   session_state, rendered, current_time, sidebar>>

\* the steps of a call whose GET is answered 200
WindowStep(t) ==
    \/ CheckRateLimitStep(t)
    \/ RateSleepWake(t)
    \/ SendGet(t)
    \/ IncrLoad(t)
    \/ IncrStore(t)
    \/ HandleStatus(t)
    \/ Finish(t)
    \/ Unwrap(t)

NextWindow ==
    \/ \E t \in MainThreads : DashboardInit(t)
    \/ \E t \in MainThreads : \E c \in RateCalls : FreeCall(t, c)
    \/ \E t \in MainThreads : WindowStep(t)
    \/ \E t \in MainThreads : \E o \in WindowOutcomes : Receive(t, o)
    \/ \E d \in Ticks : WindowTick(d)
    \/ Observe

SpecWindow == Init /\ [][NextWindow]_vars

(***************************************************************************)
(* Reading a call's trace.                                                 *)
(***************************************************************************)
At(tr, kind) == {i \in 1..Len(tr) : tr[i].ev = kind}
Count(tr, kind) == Cardinality(At(tr, kind))
First(S) == CHOOSE i \in S : \A j \in S : i <= j
Last(S) == CHOOSE i \in S : \A j \in S : j <= i

\* thread t's call went through _make_request and has ended
Ended(t) == pc[t] = "done" /\ reqs[t] # <<>>

\* the first response of the call had status 429
First429(tr) == At(tr, "response") # {} /\ tr[First(At(tr, "response"))].n = 429

\* the seconds a 429 response asks for: its header as an integer, or 60
HintSeconds(e) == IF IsNone(e.hint) THEN 60 ELSE PyInt(e.hint[1]).val

(***************************************************************************)
(* C1: in every _make_request call a second GET is issued if and only if   *)
(* the first response has status 429; between the two GETs there is        *)
(* exactly one sleep, of the header's integer value or of 60 seconds when  *)
(* the header is absent; a second 429 is followed by no GET and no sleep   *)
(* and the call returns {}; so there are at most two GETs.                 *)
(***************************************************************************)
C1_RetryOnceOn429 ==
    \A t \in Threads :
        Ended(t) =>
            LET tr == trace[t]
                gets == At(tr, "GET")
                resps == At(tr, "response")
            IN  /\ (Cardinality(gets) >= 2) <=> First429(tr)
                /\ Cardinality(gets) <= 2
                /\ Cardinality(gets) = 2 =>
                     LET between ==
                            {i \in At(tr, "sleep") : First(gets) < i /\ i < Last(gets)}
                     IN  /\ Cardinality(between) = 1
                         /\ \A i \in between :
                                tr[i].n = HintSeconds(tr[First(resps)])
                /\ (Cardinality(resps) = 2 /\ tr[Last(resps)].n = 429) =>
                     /\ \A i \in gets \cup At(tr, "sleep") : i < Last(resps)
                     /\ data[t] = EmptyEnvelope
                     /\ result[t] = Returned(<<>>)

(***************************************************************************)
(* C2: the GETs sent in any 60 consecutive seconds, first attempts and     *)
(* retries together, never number more than REQUESTS_PER_MINUTE.           *)
(***************************************************************************)
C2_RollingWindowCap == obsCount <= REQUESTS_PER_MINUTE

(***************************************************************************)
(* C3: requests_this_minute is incremented once for each GET the client    *)
(* sends, the retry after a 429 and a GET that raises included: when a     *)
(* call has ended it made as many increments as it sent GETs.              *)
(***************************************************************************)
C3_EveryGetCounted ==
    \A t \in Threads :
        Ended(t) => Count(trace[t], "incr") = Count(trace[t], "GET")

(***************************************************************************)
(* C4: _check_rate_limit at time t with e = t - minute_start does exactly  *)
(* one of: (i) e >= 60: counter to 0, minute_start to t, no sleep;         *)
(* (ii) e < 60 and the budget is used up: sleep 60 - e, then counter to 0  *)
(* and minute_start to the time after the sleep; (iii) otherwise: nothing  *)
(* changes and there is no sleep.                                          *)
(***************************************************************************)
C4_CheckRateLimitCases ==
    [][\A t \in Threads :
        LET e == current_time[t] - minute_start
            Left(at) == pc[t] = at /\ pc'[t] # at
            Kept == /\ requests_this_minute' = requests_this_minute
                    /\ minute_start' = minute_start
                    /\ trace'[t] = trace[t]
        IN  /\ Left("check") => current_time'[t] = now /\ Kept
            /\ Left("window") =>
                    /\ pc'[t] = IF e >= 60 THEN "roll_count" ELSE "budget"
                    /\ Kept
            /\ Left("roll_count") =>
                    /\ requests_this_minute' = 0
                    /\ pc'[t] = "roll_start"
            /\ Left("roll_start") =>
                    /\ minute_start' = current_time[t]
                    /\ requests_this_minute' = 0
                    /\ pc'[t] = "budget"
                    /\ trace'[t] = trace[t]
            /\ Left("budget") =>
                    /\ pc'[t] = IF requests_this_minute >= REQUESTS_PER_MINUTE
                                THEN "wait" ELSE "send1"
                    /\ Kept
            /\ Left("wait") =>
                    /\ e < 60
                    /\ pc'[t] = "rate_sleep"
                    /\ trace'[t] = Append(trace[t], Ev("sleep", 60 - e))
                    /\ wake'[t] = now + (60 - e)
                    /\ requests_this_minute' = requests_this_minute
                    /\ minute_start' = minute_start
            /\ Left("rate_sleep") => now' >= wake[t] /\ Kept
            /\ Left("reset_count") => requests_this_minute' = 0
            /\ Left("reset_read") => current_time'[t] = now
            /\ Left("reset_start") =>
                    /\ requests_this_minute' = 0
                    /\ minute_start' = current_time[t]
                    /\ pc'[t] = "send1"
                    /\ trace'[t] = trace[t]]_vars

\* a call waits for the rest of a window that is 20 or 40 seconds old
C4_Witness ==
    \E t \in Threads :
        /\ pc[t] = "rate_sleep"
        /\ requests_this_minute = REQUESTS_PER_MINUTE
        /\ wake[t] - now \in {20, 40}

(***************************************************************************)
(* C5: when session.get raises a RequestException, or the final response   *)
(* (the second one, or the first when it is not a 429) has an error        *)
(* status, _make_request raises nothing, emits exactly one st.error and    *)
(* returns {}.                                                             *)
(***************************************************************************)
HttpFailed(tr) ==
    \/ At(tr, "raise") # {}
    \/ \E i \in At(tr, "response") :
        /\ RaiseForStatus(tr[i].n)
        /\ tr[i].n # 429 \/ i # First(At(tr, "response"))

C5_FailureSwallowed ==
    \A t \in Threads :
        (Ended(t) /\ HttpFailed(trace[t])) =>
            /\ result[t].kind # "raised"
            /\ Count(trace[t], "st.error") = 1
            /\ data[t] = EmptyEnvelope

\* a call has ended whose retry was answered with an error status
C5_Witness ==
    \E t \in Threads :
        /\ Ended(t)
        /\ Count(trace[t], "response") = 2
        /\ trace[t][Last(At(trace[t], "response"))].n >= 400

(***************************************************************************)
(* C6: whatever the HTTP layer does, every public query method returns a   *)
(* list and raises nothing.                                                *)
(***************************************************************************)
C6_AlwaysAList ==
    \A t \in Threads : pc[t] = "done" => result[t].kind = "list"

(***************************************************************************)
(* C7: with an empty OPENAQ_API_KEY validate_api_key raises, so            *)
(* get_openaq_client reports the error and stops the script without a      *)
(* client, and no GET is ever sent.                                        *)
(***************************************************************************)
C7_NoKeyNoRequest ==
    api_key = "" =>
        /\ client = "none"
        /\ \A t \in Threads :
            /\ pc[t] \in {"start", "stopped"}
            /\ Count(trace[t], "GET") = 0
            /\ pc[t] = "stopped" => trace[t] = <<Ev("st.error", 0)>>

\* the script was stopped for want of a key
C7_Witness == api_key = "" /\ \E t \in Threads : pc[t] = "stopped"

(***************************************************************************)
(* Reading the requests of a call.                                         *)
(***************************************************************************)
IsCallOf(t, m) ==
    call[t].method = m /\ pc[t] \notin {"start", "init", "idle", "stopped"}

\* the call was answered by st.cache_data without running the method
ServedFromCache(t) == pc[t] = "done" /\ reqs[t] = <<>> /\ trace[t] = <<>>

RECURSIVE Repeat(_, _)
\* the list rs + rs + ... + rs, n times
Repeat(rs, n) == IF n = 0 THEN <<>> ELSE rs \o Repeat(rs, n - 1)

(***************************************************************************)
(* C8: get_latest_measurements with a non-empty list of location ids makes *)
(* one _make_request per id, to 'locations/<id>/latest' in the order of    *)
(* the ids, and returns the 'results' lists concatenated: n ids answered k *)
(* records each give n*k records.                                          *)
(***************************************************************************)
C8_OneRequestPerLocation ==
    \A t \in Threads :
        (IsCallOf(t, "get_latest_measurements") /\ TruthyList(call[t].args[1])) =>
            LET ids == call[t].args[1][1]
            IN  /\ Len(reqs[t]) <= Len(ids)
                /\ \A i \in 1..Len(reqs[t]) :
                        reqs[t][i].endpoint = "locations/" \o IntStr(ids[i]) \o "/latest"
                /\ (pc[t] = "done" /\ result[t].kind = "list") =>
                     /\ Len(reqs[t]) = Len(ids)
                     /\ data[t].kind = "object" /\ data[t].has_results =>
                            result[t].value = Repeat(data[t].results, Len(ids))

(***************************************************************************)
(* C9: every request of get_latest_measurements carries limit = 1000, the  *)
(* comma-joined countries under 'countries' when countries are supplied,   *)
(* the comma-joined parameters under 'parameters' when parameters are      *)
(* supplied, and no other key (no 'locations' key in particular).          *)
(***************************************************************************)
C9_LatestParams ==
    \A t \in Threads :
        IsCallOf(t, "get_latest_measurements") =>
            \A i \in 1..Len(reqs[t]) :
                LET countries == call[t].args[2]
                    parameters == call[t].args[3]
                    given == reqs[t][i].params
                IN  /\ ~IsNone(given)
                    /\ HasKey(given[1], "limit") /\ given[1]["limit"] = 1000
                    /\ HasKey(given[1], "countries") <=> TruthyList(countries)
                    /\ TruthyList(countries) =>
                            given[1]["countries"] = Join(countries[1], ",")
                    /\ HasKey(given[1], "parameters") <=> TruthyList(parameters)
                    /\ TruthyList(parameters) =>
                            given[1]["parameters"] = Join(parameters[1], ",")
                    /\ DOMAIN given[1] \subseteq {"limit", "countries", "parameters"}

(***************************************************************************)
(* C10: whatever country, city and bbox are, a get_locations call that is  *)
(* not answered by the cache makes one request, to 'locations', whose      *)
(* params hold limit = 1000 and hold 'bbox' exactly when a bbox is         *)
(* supplied, as its four components joined by commas in the given order.   *)
(***************************************************************************)
C10_LocationsParams ==
    \A t \in Threads :
        IsCallOf(t, "get_locations") =>
            LET bbox == call[t].args[3]
            IN  /\ Len(reqs[t]) <= 1
                /\ reqs[t] = <<>> => ServedFromCache(t)
                /\ \A i \in 1..Len(reqs[t]) :
                    LET given == reqs[t][i].params
                    IN  /\ reqs[t][i].endpoint = "locations"
                        /\ ~IsNone(given)
                        /\ HasKey(given[1], "limit") /\ given[1]["limit"] = 1000
                        /\ HasKey(given[1], "bbox") <=> ~IsNone(bbox)
                        /\ ~IsNone(bbox) =>
                            given[1]["bbox"] =
                                Join(<<FloatStr(bbox[1][1]), FloatStr(bbox[1][2]),
                                       FloatStr(bbox[1][3]), FloatStr(bbox[1][4])>>, ",")
                        /\ call[t].args[3] = Some(<<10, 20, 30, 40>>) =>
                            given[1]["bbox"] = "1.0,2.0,3.0,4.0"
                        /\ call[t].args[3] = Some(<<-5, 513, 3, 517>>) =>
                            given[1]["bbox"] = "-0.5,51.3,0.3,51.7"

\* a get_locations call with a country and a bbox has made its request and
\* returned
C10_Witness ==
    \E t \in Threads :
        /\ IsCallOf(t, "get_locations")
        /\ pc[t] = "done"
        /\ Len(reqs[t]) = 1
        /\ call[t].args[1] = Some("US")
        /\ call[t].args[3] = Some(<<-5, 513, 3, 517>>)
        /\ result[t] = Returned(<<"r1", "r2">>)

(***************************************************************************)
(* C11: get_locations called with a country c and a bbox and no city calls *)
(* _make_request('locations', params) with params exactly limit = 1000,    *)
(* 'country' = c and 'bbox' = the comma-joined bbox: the country filter is *)
(* sent under the key 'country' and there is no other key.                 *)
(***************************************************************************)
C11_LocationsCountryKey ==
    \A t \in Threads :
        (/\ IsCallOf(t, "get_locations")
         /\ TruthyStr(call[t].args[1])
         /\ IsNone(call[t].args[2])
         /\ ~IsNone(call[t].args[3])) =>
            \A i \in 1..Len(reqs[t]) :
                LET given == reqs[t][i].params
                IN  /\ reqs[t][i].endpoint = "locations"
                    /\ ~IsNone(given)
                    /\ DOMAIN given[1] = {"limit", "country", "bbox"}
                    /\ given[1]["limit"] = 1000
                    /\ given[1]["country"] = call[t].args[1][1]
                    /\ given[1]["bbox"] = BBoxStr(call[t].args[3][1])

(***************************************************************************)
(* C12: for every combination of arguments get_measurements issues one     *)
(* request, to 'measurements', whose params always hold sort = 'datetime'  *)
(* and limit = the limit argument; hold 'date_from' / 'date_to' = the ISO  *)
(* text of the argument exactly when it is provided; hold 'locations' =    *)
(* location_id and 'parameters' = parameter exactly when those are         *)
(* provided; and hold no other key.                                        *)
(***************************************************************************)
C12_MeasurementsParams ==
    \A t \in Threads :
        IsCallOf(t, "get_measurements") =>
            LET location_id == call[t].args[1]
                parameter == call[t].args[2]
                date_from == call[t].args[3]
                date_to == call[t].args[4]
                limit == call[t].args[5]
            IN  /\ Len(reqs[t]) = 1
                /\ \A i \in 1..Len(reqs[t]) :
                    LET given == reqs[t][i].params
                    IN  /\ reqs[t][i].endpoint = "measurements"
                        /\ ~IsNone(given)
                        /\ HasKey(given[1], "sort") /\ given[1]["sort"] = "datetime"
                        /\ HasKey(given[1], "limit") /\ given[1]["limit"] = limit
                        /\ HasKey(given[1], "date_from") <=> ~IsNone(date_from)
                        /\ date_from = Some(DateTime(2024, 1, 1, 0, 0, 0)) =>
                                given[1]["date_from"] = "2024-01-01T00:00:00"
                        /\ HasKey(given[1], "date_to") <=> ~IsNone(date_to)
                        /\ date_to = Some(DateTime(2024, 1, 2, 13, 5, 9)) =>
                                given[1]["date_to"] = "2024-01-02T13:05:09"
                        /\ HasKey(given[1], "locations") <=> ~IsNone(location_id)
                        /\ HasKey(given[1], "locations") =>
                                given[1]["locations"] = location_id[1]
                        /\ HasKey(given[1], "parameters") <=> ~IsNone(parameter)
                        /\ HasKey(given[1], "parameters") =>
                                given[1]["parameters"] = parameter[1]
                        /\ DOMAIN given[1] \subseteq
                            {"sort", "limit", "date_from", "date_to",
                             "locations", "parameters"}

(***************************************************************************)
(* C13: get_location_measurements_aggregated issues exactly one request,   *)
(* to 'locations/<location_id>/measurements/<period>s', whose params hold  *)
(* 'parameters' = parameter, 'date_from' / 'date_to' in ISO text exactly   *)
(* when provided and no other key, and returns the 'results' list of the   *)
(* response.                                                               *)
(***************************************************************************)
C13_AggregatedRequest ==
    \A t \in Threads :
        IsCallOf(t, "get_location_measurements_aggregated") =>
            LET location_id == call[t].args[1]
                parameter == call[t].args[2]
                period == call[t].args[3]
                date_from == call[t].args[4]
                date_to == call[t].args[5]
            IN  /\ Len(reqs[t]) = 1
                /\ Count(trace[t], "GET") <= 1
                /\ pc[t] = "done" => Count(trace[t], "GET") = 1
                /\ \A i \in 1..Len(reqs[t]) :
                    LET given == reqs[t][i].params
                    IN  /\ reqs[t][i].endpoint =
                            "locations/" \o IntStr(location_id) \o "/measurements/"
                                \o period \o "s"
                        /\ (location_id = 2 /\ period = "day") =>
                                reqs[t][i].endpoint = "locations/2/measurements/days"
                        /\ ~IsNone(given)
                        /\ HasKey(given[1], "parameters")
                        /\ given[1]["parameters"] = parameter
                        /\ HasKey(given[1], "date_from") <=> ~IsNone(date_from)
                        /\ date_from = Some(DateTime(2024, 1, 1, 0, 0, 0)) =>
                                given[1]["date_from"] = "2024-01-01T00:00:00"
                        /\ HasKey(given[1], "date_to") <=> ~IsNone(date_to)
                        /\ date_to = Some(DateTime(2024, 1, 2, 13, 5, 9)) =>
                                given[1]["date_to"] = "2024-01-02T13:05:09"
                        /\ DOMAIN given[1] \subseteq {"parameters", "date_from", "date_to"}
                /\ (pc[t] = "done" /\ At(trace[t], "response") # {}) =>
                        /\ data[t] = resp[t].body
                        /\ data[t].has_results => result[t] = Returned(data[t].results)

\* an aggregated call with both dates has been answered and has returned the
\* records of the response
C13_Witness ==
    \E t \in Threads :
        /\ IsCallOf(t, "get_location_measurements_aggregated")
        /\ pc[t] = "done"
        /\ call[t].args = <<2, "pm25", "day", Some(DateTime(2024, 1, 1, 0, 0, 0)),
                            Some(DateTime(2024, 1, 2, 13, 5, 9))>>
        /\ Count(trace[t], "GET") = 1
        /\ result[t] = Returned(<<"r1", "r2">>)

(***************************************************************************)
(* C14: unwrapping is total on envelopes: whenever _make_request has       *)
(* returned an envelope (a JSON object, or the {} of a failed request),    *)
(* the query method returns the value under 'results' when the key is      *)
(* present and the empty list when it is absent, and never raises.         *)
(***************************************************************************)
C14_UnwrapTotal ==
    \A t \in Threads :
        (Ended(t) /\ data[t].kind = "object") =>
            /\ result[t].kind = "list"
            /\ data[t].has_results => result[t].value = data[t].results
            /\ ~data[t].has_results => result[t].value = <<>>
            /\ HttpFailed(trace[t]) =>
                    data[t] = EmptyEnvelope /\ result[t] = Returned(<<>>)

\* a 200 response whose body is an object without 'results' has been
\* unwrapped to the empty list
C14_Witness ==
    \E t \in Threads :
        /\ Ended(t)
        /\ resp[t].status = 200
        /\ data[t] = BodyNoResults
        /\ result[t] = Returned(<<>>)

(***************************************************************************)
(* C20: get_countries and get_parameters each issue exactly one            *)
(* _make_request, with the endpoint name alone ('countries' resp.          *)
(* 'parameters') and no params argument, and return the 'results' list of  *)
(* the response unchanged.  (A call answered by st.cache_data does not run *)
(* the method and issues none.)                                            *)
(***************************************************************************)
C20_BareEndpoint ==
    \A t \in Threads :
        \A m \in {"get_countries", "get_parameters"} :
            IsCallOf(t, m) =>
                /\ Len(reqs[t]) <= 1
                /\ reqs[t] = <<>> => ServedFromCache(t)
                /\ \A i \in 1..Len(reqs[t]) :
                        /\ m = "get_countries" => reqs[t][i].endpoint = "countries"
                        /\ m = "get_parameters" => reqs[t][i].endpoint = "parameters"
                        /\ IsNone(reqs[t][i].params)
                /\ (Ended(t) /\ At(trace[t], "response") # {}
                        /\ resp[t].body.kind = "object" /\ resp[t].body.has_results) =>
                        result[t] = Returned(resp[t].body.results)

\* get_countries has sent its one request and returned the records of the
\* response
C20_Witness ==
    \E t \in Threads :
        /\ IsCallOf(t, "get_countries")
        /\ Ended(t)
        /\ reqs[t] = <<[endpoint |-> "countries", params |-> None]>>
        /\ Count(trace[t], "GET") = 1
        /\ result[t] = Returned(<<"r1", "r2">>)

(***************************************************************************)
(* SpecUrl: _make_request called directly with endpoints that do and do    *)
(* not start with '/'.  A call ends when _make_request has returned its    *)
(* envelope (pc = "unwrap"); at most MaxUrlCalls calls are made.           *)
(***************************************************************************)
MaxUrlCalls == 2

UrlEndpoints ==
    {"countries", "/countries", "//countries", "locations/18", "/locations/18",
     "parameters/", "/parameters/", "", "/"}

\* client._make_request(endpoint), params left at its default None
MakeRequest(t, endpoint) ==
    /\ pc[t] = "idle" \/ (pc[t] = "unwrap" /\ call[t].method = "_make_request")
    /\ ncalls < MaxUrlCalls
    /\ ncalls' = ncalls + 1
    /\ call' = [call EXCEPT ![t] = Call("_make_request", <<endpoint>>)]
    /\ reqs' = [reqs EXCEPT ![t] = <<Request(endpoint, None)>>]
    /\ trace' = [trace EXCEPT ![t] = <<>>]
    /\ resp' = [resp EXCEPT ![t] = NoResponse]
    /\ exc' = [exc EXCEPT ![t] = ""]
    /\ reg' = [reg EXCEPT ![t] = 0]
    /\ wake' = [wake EXCEPT ![t] = 0]
    /\ current_time' = [current_time EXCEPT ![t] = 0]
    /\ data' = [data EXCEPT ![t] = EmptyEnvelope]
    /\ result' = [result EXCEPT ![t] = NoResult]
    /\ pc' = [pc EXCEPT ![t] = "check"]
    /\ UNCHANGED <<api_key, client, now, requests_this_minute, minute_start,
                   cache, obsStart, obsCount, hist,
                   session_state, rendered, sidebar>>

\* the steps of _make_request up to its return
UrlStep(t) ==
    \/ CheckRateLimitStep(t)
    \/ SendGet(t)
    \/ IncrLoad(t)
    \/ IncrStore(t)
    \/ HandleStatus(t)
    \/ Finish(t)
    \/ Except(t)

NextUrl ==
    \/ \E t \in MainThreads : DashboardInit(t)
    \/ \E t \in MainThreads : \E e \in UrlEndpoints : MakeRequest(t, e)
    \/ \E t \in MainThreads : UrlStep(t)
    \/ \E t \in MainThreads : \E o \in QueryOutcomes : Receive(t, o)

SpecUrl == Init /\ [][NextUrl]_vars

\* the URLs of the GETs of a call, in the order they were sent
Urls(tr) == [i \in 1..Count(tr, "GET") |->
                tr[CHOOSE j \in At(tr, "GET") :
                        Cardinality({k \in At(tr, "GET") : k <= j}) = i].hint[1]]

(***************************************************************************)
(* C16: the request URL is the base URL, one '/', and the endpoint with    *)
(* its leading slash stripped: for an endpoint e that does not start with  *)
(* '/', _make_request(e) and _make_request('/' + e) both send their GET to *)
(* base_url + '/' + e.                                                     *)
(***************************************************************************)
C16_LeadingSlashStripped ==
    \A t \in Threads :
        IsCallOf(t, "_make_request") =>
            LET endpoint == call[t].args[1]
                rest == SubSeq(endpoint, 2, Len(endpoint))
            IN  \A i \in 1..Len(Urls(trace[t])) :
                    /\ ~StartsWith(endpoint, "/") =>
                            Urls(trace[t])[i] = OPENAQ_BASE_URL \o "/" \o endpoint
                    /\ (StartsWith(endpoint, "/") /\ ~StartsWith(rest, "/")) =>
                            Urls(trace[t])[i] = OPENAQ_BASE_URL \o "/" \o rest
                    /\ endpoint \in {"countries", "/countries"} =>
                            Urls(trace[t])[i] = "https://api.openaq.org/v3/countries"
                    /\ endpoint \in {"parameters/", "/parameters/"} =>
                            Urls(trace[t])[i] = "https://api.openaq.org/v3/parameters/"

\* _make_request('/locations/18') has sent its GET to the URL of
\* 'locations/18' and has returned
C16_Witness ==
    \E t \in Threads :
        /\ IsCallOf(t, "_make_request")
        /\ call[t].args[1] = "/locations/18"
        /\ pc[t] = "unwrap"
        /\ Urls(trace[t]) = <<"https://api.openaq.org/v3/locations/18">>

(***************************************************************************)
(* SpecLive: the session of SpecWindow without the observer, under the     *)
(* scheduling the code has: a script thread that can take the next step of *)
(* _check_rate_limit takes it, and time.sleep returns.                     *)
(***************************************************************************)
NextLive ==
    \/ \E t \in MainThreads : DashboardInit(t)
    \/ \E t \in MainThreads : \E c \in RateCalls : FreeCall(t, c)
    \/ \E t \in MainThreads : WindowStep(t)
    \/ \E t \in MainThreads : \E o \in WindowOutcomes : Receive(t, o)
    \/ \E d \in Ticks : Tick(d)

SpecLive ==
    /\ Init
    /\ [][NextLive]_vars
    /\ \A t \in MainThreads :
            WF_vars(CheckRateLimitStep(t)) /\ WF_vars(RateSleepWake(t))

\* the sleeps of _check_rate_limit: those before the first GET of the call
RateSleeps(tr) ==
    {i \in At(tr, "sleep") : \A j \in At(tr, "GET") : i < j}

\* _check_rate_limit has slept at most once, for more than 0 and at most 60
\* seconds, and nothing was raised before the GET
DelaysOnly ==
    \A t \in Threads :
        /\ Cardinality(RateSleeps(trace[t])) <= 1
        /\ \A i \in RateSleeps(trace[t]) :
                trace[t][i].n > 0 /\ trace[t][i].n <= 60
        /\ pc[t] = "rate_sleep" => wake[t] - now <= 60
        /\ (pc[t] = "except" \/ result[t].kind = "raised") =>
                At(trace[t], "GET") # {}

(***************************************************************************)
(* C17: the rate limiter can only delay, never fail: with a clock that     *)
(* does not go back, every _check_rate_limit returns without raising after *)
(* at most one sleep of more than 0 and at most 60 seconds, so every       *)
(* _make_request goes on to send its GET (unless the sleep would end after *)
(* the last instant MaxTime of the model's clock).                         *)
(***************************************************************************)
C17_OnlyDelays ==
    /\ []DelaysOnly
    /\ \A t \in MainThreads :
            (pc[t] = "check") ~>
                (pc[t] = "send1" \/ (pc[t] = "rate_sleep" /\ wake[t] > MaxTime))

\* a call found the budget used up, slept until the window ended and has
\* sent its GET
C17_Witness ==
    \E t \in Threads :
        /\ Cardinality(RateSleeps(trace[t])) = 1
        /\ Count(trace[t], "GET") = 1
        /\ \E i \in RateSleeps(trace[t]) : trace[t][i].n = 40

(***************************************************************************)
(* SpecConc: two dashboard sessions of one process.  Each session's script *)
(* runs in a thread of its own; get_openaq_client hands both the one       *)
(* client that st.cache_resource keeps.  The steps of the two threads      *)
(* interleave freely; together they make at most MaxConcCalls calls, and   *)
(* the clock stands still.                                                 *)
(***************************************************************************)
MaxConcCalls == 2

ConcCall(t, c) ==
    /\ ncalls < MaxConcCalls
    /\ CallMethod(t, c)
    /\ ncalls' = ncalls + 1
    /\ UNCHANGED hist

NextConc ==
    \/ \E t \in Threads : DashboardInit(t)
    \/ \E t \in Threads : \E c \in RateCalls : ConcCall(t, c)
    \/ \E t \in Threads : QueryStep(t)
    \/ \E t \in Threads : \E o \in QueryOutcomes : Receive(t, o)

SpecConc == Init /\ [][NextConc]_vars

\* session.get has been entered by thread t and has not returned
InFlight(t) == pc[t] \in {"wait1", "wait2"}

\* the GETs of a call that have neither been answered nor raised
Unanswered(tr) == Count(tr, "GET") - Count(tr, "response") - Count(tr, "raise")

(***************************************************************************)
(* C18 as stated: at any moment at most one HTTP GET of the client is in   *)
(* flight, also when several dashboard sessions render concurrently with   *)
(* the client returned by get_openaq_client.                               *)
(***************************************************************************)
C18_OneGetInFlight == Cardinality({t \in Threads : InFlight(t)}) <= 1

(***************************************************************************)
(* C18 amended: each session's script thread has at most one HTTP GET in   *)
(* flight (session.get blocks the thread until it returns or raises);      *)
(* sessions that render concurrently with the shared client can each have  *)
(* one in flight, so there are at most as many as there are sessions.      *)
(***************************************************************************)
C18_OneGetPerSession ==
    /\ \A t \in Threads :
            /\ Unanswered(trace[t]) \in {0, 1}
            /\ Unanswered(trace[t]) = 1 <=> InFlight(t)
    /\ Cardinality({t \in Threads : InFlight(t)}) <= Cardinality(Threads)

\* both sessions have a GET in flight at once
C18_Witness ==
    /\ \A t \in Threads : InFlight(t) /\ Unanswered(trace[t]) = 1
    /\ client = "ready"

(***************************************************************************)
(* C19 as stated: each dashboard session has its own RateWindow: a request *)
(* made by one session never changes the requests_this_minute /            *)
(* minute_start pair that gates the requests of another session of the     *)
(* process.                                                                *)
(***************************************************************************)
C19_OwnRateWindow ==
    [][\A t \in Threads : \A u \in Threads \ {t} :
            (/\ pc[u] \notin {"start", "stopped"}
             /\ pc[t] \notin {"start", "stopped"}
             /\ pc'[t] # pc[t]) =>
                UNCHANGED <<requests_this_minute, minute_start>>]_vars

(***************************************************************************)
(* C19 amended: the sessions of a process share one RateWindow, the one of *)
(* the client that get_openaq_client caches: a session that starts when    *)
(* the client exists gets that client with its counter and window start as *)
(* they are, and the count of a request made by one session is in the      *)
(* counter that gates the others.                                          *)
(***************************************************************************)
C19_SharedRateWindow ==
    [][\A t \in Threads :
            /\ (pc[t] = "start" /\ pc'[t] = "init" /\ client = "ready") =>
                    UNCHANGED <<client, requests_this_minute, minute_start>>
            /\ (pc[t] = "incr_store" /\ pc'[t] # pc[t]) =>
                    \A u \in Threads \ {t} :
                        pc[u] \in {"check", "window", "budget"} =>
                            requests_this_minute' = reg[t] + 1]_vars

\* one session has made a request; the other, which has made none, is about
\* to be gated by a counter that holds that request
C19_Witness ==
    \E t \in Threads : \E u \in Threads \ {t} :
        /\ Count(trace[t], "incr") = 1
        /\ pc[u] = "check"
        /\ trace[u] = <<>>
        /\ requests_this_minute = 1

(***************************************************************************)
(* SpecCache: a session that calls two memoized getters again and again    *)
(* while minutes pass and the 'Refresh Data' button is pressed.  The       *)
(* server answers with one of two lists, with a JSON array, or the GET     *)
(* raises.  At most MaxCacheCalls calls are made, up to time MaxCacheTime. *)
(***************************************************************************)
MaxCacheCalls == 3
MaxCacheTime == 450

CacheTicks == {150}

CacheMethods == {"get_countries", "get_cities"}

CacheCalls(m) ==
    CASE m = "get_countries" -> {Call(m, <<>>)}
      [] m = "get_cities" -> {Call(m, <<Some("US")>>)}

CacheOutcomes ==
    {GetRaises,
     Response(200, None, BodyResults(<<"r1">>)),
     Response(200, None, BodyResults(<<"r2">>)),
     Response(200, None, BodyArray)}

\* the call thread t is in or has ended, as the previous call of the next one
PrevOf(t) ==
    [call |-> call[t], result |-> result[t], requested |-> reqs[t] # <<>>,
     failed |-> Ev("st.error", 0) \in {trace[t][i] : i \in DOMAIN trace[t]},
     started |-> hist.started]

CacheCall(t, c) ==
    /\ ncalls < MaxCacheCalls
    /\ CallMethod(t, c)
    /\ ncalls' = ncalls + 1
    /\ hist' = [prev |-> IF call[t].method = "" THEN hist.prev ELSE PrevOf(t),
                started |-> now,
                since |-> 0,
                waited |-> hist.since,
                cleared |-> FALSE,
                clearedBetween |-> hist.cleared,
                rerun |-> hist.rerun]

CacheRerun(t) ==
    /\ Rerun(t)
    /\ hist' = [hist EXCEPT !.prev = IF call[t].method = "" THEN @ ELSE PrevOf(t),
                            !.rerun = TRUE]

\* minutes pass; the time counts as passed since the session's latest call
\* ended when no call is under way, which is so in the button's handler too
Elapse(d) ==
    /\ now + d <= MaxCacheTime
    /\ now' = now + d
    /\ hist' = [hist EXCEPT !.since =
                    IF \A t \in MainThreads :
                            pc[t] \in {"start", "init", "idle", "stamp", "done",
                                       "stopped", "failed"}
                    THEN @ + d ELSE @]
    /\ UNCHANGED <<api_key, client, requests_this_minute, minute_start, cache,
                   pc, call, reqs, trace, resp, exc, reg, wake, data, result,
                   ncalls, obsStart, obsCount,
                   session_state, rendered, current_time, sidebar>>

\* app.py lines 101-102: the 'Refresh Data' button is found pressed when the
\* sidebar is rendered, before the run has called the client:
\* st.cache_data.clear() empties the cache of every memoized getter
RefreshData(t) ==
    /\ pc[t] = "idle"
    /\ cache' = [m \in CachedMethods |-> {}]
    /\ pc' = [pc EXCEPT ![t] = "stamp"]
    /\ hist' = [hist EXCEPT !.cleared = TRUE]
    /\ UNCHANGED <<api_key, client, now, requests_this_minute, minute_start,
                   call, reqs, trace, resp, exc, reg, wake, data, result,
                   ncalls, obsStart, obsCount,
                   session_state, rendered, current_time, sidebar>>

\* app.py lines 103-104, after the cache was cleared:
\* st.session_state.last_refresh = datetime.now() and st.rerun() starts the
\* script again
StampRefresh(t) ==
    /\ pc[t] = "stamp"
    /\ session_state' = [session_state EXCEPT ![t].last_refresh = Some(now)]
    /\ pc' = [pc EXCEPT ![t] = "start"]
    /\ hist' = [hist EXCEPT !.rerun = TRUE]
    /\ UNCHANGED <<api_key, client, now, requests_this_minute, minute_start,
                   cache, call, reqs, trace, resp, exc, reg, wake, data, result,
                   ncalls, obsStart, obsCount, rendered, current_time,
                   sidebar>>

NextCache ==
    \/ \E t \in MainThreads : DashboardInit(t)
    \/ \E t \in MainThreads : CacheRerun(t)
    \/ \E t \in MainThreads : RefreshData(t)
    \/ \E t \in MainThreads : StampRefresh(t)
    \/ \E t \in MainThreads : \E m \in CacheMethods : \E c \in CacheCalls(m) :
            CacheCall(t, c)
    \/ \E t \in MainThreads : QueryStep(t)
    \/ \E t \in MainThreads : MainExcept(t)
    \/ \E t \in MainThreads : \E o \in CacheOutcomes : Receive(t, o)
    \/ \E d \in CacheTicks : Elapse(d)

SpecCache == Init /\ [][NextCache]_vars

\* thread t has ended a call of a memoized getter that repeats the session's
\* previous call
RepeatedCall(t) ==
    /\ pc[t] = "done"
    /\ call[t].method \in CachedMethods
    /\ hist.prev.call.method = call[t].method
    /\ hist.prev.call.args = call[t].args

(***************************************************************************)
(* C15 as stated: for the memoized getters, two calls with equal arguments *)
(* made less than CACHE_TIMEOUT (300 s) apart with no cache clear in       *)
(* between cause at most one _make_request and return equal results; the   *)
(* first call after the TTL has expired, or after 'Refresh Data' has       *)
(* cleared the cache, issues a new request.                                *)
(***************************************************************************)
C15_MemoizedWithinTtl ==
    \A t \in MainThreads :
        RepeatedCall(t) =>
            /\ (/\ hist.started - hist.prev.started < CACHE_TIMEOUT
                /\ ~hist.clearedBetween) =>
                    /\ ~(hist.prev.requested /\ reqs[t] # <<>>)
                    /\ result[t] = hist.prev.result
            /\ (hist.waited >= CACHE_TIMEOUT \/ hist.clearedBetween) =>
                    reqs[t] # <<>>

(***************************************************************************)
(* C15 amended: the TTL runs from the moment a result is stored, not from  *)
(* the previous call.  A call made less than CACHE_TIMEOUT seconds after   *)
(* a call with equal arguments ran the getter and returned a list, with no *)
(* cache clear in between, issues no _make_request and returns that list.  *)
(* A call made CACHE_TIMEOUT seconds or more after the previous call       *)
(* ended, or after 'Refresh Data' has cleared the cache, or after a        *)
(* previous call that raised, issues a new request.                        *)
(***************************************************************************)
C15_MemoizedFromStore ==
    \A t \in MainThreads :
        RepeatedCall(t) =>
            /\ (/\ hist.prev.result.kind = "list"
                /\ hist.prev.requested
                /\ ~hist.clearedBetween
                /\ hist.waited < CACHE_TIMEOUT) =>
                    /\ reqs[t] = <<>>
                    /\ result[t] = hist.prev.result
            /\ (\/ hist.waited >= CACHE_TIMEOUT
                \/ hist.clearedBetween
                \/ hist.prev.result.kind = "raised") =>
                    reqs[t] # <<>>

\* get_countries ran, returned the list of the response, and 150 seconds
\* later was answered from the cache with the same list
C15_Witness ==
    \E t \in MainThreads :
        /\ RepeatedCall(t)
        /\ call[t].method = "get_countries"
        /\ hist.prev.requested
        /\ hist.prev.result = Returned(<<"r2">>)
        /\ hist.waited = 150
        /\ ~hist.clearedBetween
        /\ ServedFromCache(t)
        /\ result[t] = Returned(<<"r2">>)

(***************************************************************************)
(* C21: with one thread using the client and a clock that does not go      *)
(* back, 0 <= requests_this_minute <= REQUESTS_PER_MINUTE in every         *)
(* reachable state, and requests_this_minute < REQUESTS_PER_MINUTE         *)
(* whenever _check_rate_limit has just returned, so that a GET is only     *)
(* sent while budget remains in the current window.                        *)
(***************************************************************************)
C21_CounterWithinBudget ==
    /\ 0 <= requests_this_minute
    /\ requests_this_minute <= REQUESTS_PER_MINUTE
    /\ \A t \in Threads :
            pc[t] = "send1" => requests_this_minute < REQUESTS_PER_MINUTE

\* the budget of the window was used up, the next call slept in
\* _check_rate_limit and has returned from it with the counter at 0
C21_Witness ==
    \E t \in Threads :
        /\ pc[t] = "send1"
        /\ Cardinality(RateSleeps(trace[t])) = 1
        /\ requests_this_minute = 0
        /\ minute_start = now

\* every thread that has called the client is still in, or has just ended,
\* its first call, so the traces hold every step made on the client
CallsInTraces == ncalls = Cardinality({t \in Threads : call[t].method # ""})

RECURSIVE SumOver(_, _)
\* the sum of f[t] over the threads in S
SumOver(f, S) ==
    IF S = {} THEN 0
    ELSE LET t == CHOOSE x \in S : TRUE IN f[t] + SumOver(f, S \ {t})

\* the first-attempt GETs sent since minute_start was last set
FirstGets == SumOver([t \in Threads |-> Count(trace[t], "GET")], Threads)

\* the increments of requests_this_minute made since it was last reset
Increments == SumOver([t \in Threads |-> Count(trace[t], "incr")], Threads)

(***************************************************************************)
(* C22: when two or more callers run _make_request concurrently on the     *)
(* same client, under any interleaving of the check, the GET and the       *)
(* increment, the first-attempt GETs sent between two consecutive resets   *)
(* of minute_start never exceed REQUESTS_PER_MINUTE and no increment of    *)
(* requests_this_minute is lost.  (Stated on the window that starts when   *)
(* the client is made: the clock of SpecConc stands still, so the window   *)
(* is never reset.)                                                        *)
(***************************************************************************)
C22_NoLostIncrement ==
    (client = "ready" /\ CallsInTraces) =>
        /\ FirstGets <= REQUESTS_PER_MINUTE
        /\ requests_this_minute = Increments

(***************************************************************************)
(* C23: a failed request is not memoized as data: when a memoized getter   *)
(* was called while the request failed, a later call with the same         *)
(* arguments within the TTL issues a new request and returns the data of   *)
(* the recovered upstream rather than the cached empty list.               *)
(***************************************************************************)
C23_FailureNotMemoized ==
    \A t \in MainThreads :
        (/\ RepeatedCall(t)
         /\ hist.prev.failed
         /\ hist.waited < CACHE_TIMEOUT) =>
            /\ reqs[t] # <<>>
            /\ (At(trace[t], "response") # {} /\ resp[t].body.kind = "object"
                    /\ resp[t].body.has_results) =>
                    result[t] = Returned(resp[t].body.results)

(***************************************************************************)
(* Session state and the 'Refresh Data' button.                            *)
(***************************************************************************)
\* the step is thread t's __init__ setting last_refresh, lines 60-61, in the
\* session's first run
FirstInit(t) ==
    /\ pc[t] = "init" /\ pc'[t] = "idle"
    /\ ~hist.rerun
    /\ IsNone(session_state[t].last_refresh)

\* the step is line 102 of a run of thread t in which 'Refresh Data' was
\* pressed: the first half of the button's handler
ButtonPress(t) == pc[t] = "idle" /\ pc'[t] = "stamp"

\* the step is the second half of the button's handler in thread t, lines
\* 103-104: the cache was cleared in the first half
RefreshStamp(t) == pc[t] = "stamp" /\ pc'[t] = "start"

EmptyCache == \A m \in CachedMethods : cache[m] = {}

\* last_refresh is set once at the session's first run and afterwards
\* changes only in the button's handler, which clears the cache, then
\* updates last_refresh, then starts the script again
RefreshOrder(t) ==
    /\ session_state'[t].last_refresh # session_state[t].last_refresh =>
            \/ FirstInit(t) /\ session_state'[t].last_refresh = Some(now)
            \/ /\ RefreshStamp(t)
               /\ EmptyCache
               /\ cache' = cache
    /\ (pc[t] = "init" /\ pc'[t] = "idle" /\ ~hist.rerun) =>
            session_state'[t].last_refresh # None
    /\ RefreshStamp(t) => session_state'[t].last_refresh = Some(now)
    /\ ButtonPress(t) =>
            /\ \A m \in CachedMethods : cache'[m] = {}
            /\ session_state' = session_state

\* the step is one of a rerun of thread t's script in which the button is
\* not pressed (a run in which it is pressed ends in the button's handler)
RerunWithoutButton(t) ==
    hist.rerun /\ ~ButtonPress(t) /\ ~RefreshStamp(t)

\* the step is a memoized getter of thread t storing the list it returns,
\* there being no live entry for its arguments: the list replaces the
\* expired entry for these arguments if there is one, and every other entry
\* of the cache stays
StoresResult(t) ==
    /\ pc[t] = "unwrap" /\ pc'[t] = "done"
    /\ call[t].method \in CachedMethods
    /\ result'[t].kind = "list"
    /\ \A e \in cache[call[t].method] : e.args = call[t].args => ~Live(e)
    /\ cache'[call[t].method] =
            {e \in cache[call[t].method] : e.args # call[t].args}
                \cup {[args |-> call[t].args, value |-> result'[t].value,
                       at |-> now]}
    /\ \A m \in CachedMethods \ {call[t].method} : cache'[m] = cache[m]

(***************************************************************************)
(* C29 as stated: st.session_state.last_refresh is set once, at the        *)
(* session's first run, and afterwards changes only in a run where the     *)
(* 'Refresh Data' button was pressed; in such a run the cache is cleared   *)
(* before last_refresh is updated and a rerun is triggered; a rerun        *)
(* without the button leaves last_refresh and the cache contents           *)
(* unchanged.                                                              *)
(***************************************************************************)
C29_RerunKeepsCache ==
    [][\A t \in MainThreads :
        /\ RefreshOrder(t)
        /\ RerunWithoutButton(t) =>
                /\ session_state'[t].last_refresh = session_state[t].last_refresh
                /\ cache' = cache]_vars

(***************************************************************************)
(* C29 amended: last_refresh is set once, at the session's first run, and  *)
(* afterwards changes only in a run where the 'Refresh Data' button was    *)
(* pressed; in such a run the cache is cleared before last_refresh is      *)
(* updated and a rerun is triggered; a rerun without the button leaves     *)
(* last_refresh unchanged, and changes the cache contents only where a     *)
(* memoized getter it calls finds no live entry for its arguments: the     *)
(* list that call returns is stored, in place of the expired entry if      *)
(* there is one, and every other entry stays as it was.                    *)
(***************************************************************************)
C29_RefreshFrame ==
    [][\A t \in MainThreads :
        /\ RefreshOrder(t)
        /\ RerunWithoutButton(t) =>
                /\ session_state'[t].last_refresh = session_state[t].last_refresh
                /\ cache' # cache => StoresResult(t)]_vars

\* a session whose last_refresh is of time 150 and whose countries were
\* stored then is rerun without the button 300 s later: get_countries finds
\* its entry expired and stores the list it fetches in its place, and
\* last_refresh is as it was
C29_Witness ==
    \E t \in MainThreads :
        /\ hist.rerun
        /\ pc[t] = "done"
        /\ call[t].method = "get_countries"
        /\ reqs[t] # <<>>
        /\ hist.prev.call.method = "get_countries"
        /\ hist.prev.started = 150
        /\ session_state[t].last_refresh = Some(150)
        /\ now = 450
        /\ \E e \in cache["get_countries"] : e.at = 450

(***************************************************************************)
(* The plot functions.  A concentration is a whole number of hundredths    *)
(* (1205 is 12.05); a bound of float("inf") is None.                       *)
(***************************************************************************)
MaxValue == 25100
MaxNegative == 100
Values == (0 - MaxNegative)..MaxValue

Row(min_val, max_val, category, color) ==
    [min_val |-> min_val, max_val |-> max_val, category |-> category,
     color |-> color]

\* AQI_THRESHOLDS["pm25"], config.py lines 88-97
AQI_THRESHOLDS ==
    <<Row(0, Some(1200), "Good", "#00E400"),
      Row(1210, Some(3540), "Moderate", "#FFFF00"),
      Row(3550, Some(5540), "Unhealthy for Sensitive Groups", "#FF7E00"),
      Row(5550, Some(15040), "Unhealthy", "#FF0000"),
      Row(15050, Some(25040), "Very Unhealthy", "#8F3F97"),
      Row(25050, None, "Hazardous", "#7E0023")>>

\* min_val <= value <= max_val
InRow(r, value) ==
    r.min_val <= value /\ (IsNone(r.max_val) \/ value <= r.max_val[1])

\* the rows the loop 'for min_val, max_val, category, color in thresholds'
\* finds matching, by index
Matching(value) == {i \in 1..Len(AQI_THRESHOLDS) : InRow(AQI_THRESHOLDS[i], value)}

\* the index of the row at which the loop breaks or returns, 0 when it ends
\* without a match
FirstRow(value) ==
    IF Matching(value) = {} THEN 0
    ELSE CHOOSE i \in Matching(value) : \A j \in Matching(value) : i <= j

\* create_aqi_gauge, charts.py lines 232-244: the category and color the
\* gauge is drawn with
AqiGauge(value) ==
    IF FirstRow(value) = 0
    THEN [category |-> "Good", color |-> "#00E400"]
    ELSE [category |-> AQI_THRESHOLDS[FirstRow(value)].category,
          color |-> AQI_THRESHOLDS[FirstRow(value)].color]

\* color_map.get(color, 'blue'), maps.py lines 174-182
ColorMap(color) ==
    CASE color = "#00E400" -> "green"
      [] color = "#FFFF00" -> "yellow"
      [] color = "#FF7E00" -> "orange"
      [] color = "#FF0000" -> "red"
      [] color = "#8F3F97" -> "purple"
      [] color = "#7E0023" -> "darkred"
      [] OTHER -> "blue"

\* _get_aqi_color, maps.py lines 167-184
AqiColor(value) ==
    IF FirstRow(value) = 0 THEN "blue"
    ELSE ColorMap(AQI_THRESHOLDS[FirstRow(value)].color)

\* the plot call under way: what it returns (out), or the exception it
\* raises (exc)
Render(fn, input, out) == [fn |-> fn, input |-> input, out |-> out, exc |-> ""]
RenderRaised(fn, input, e) == [fn |-> fn, input |-> input, out |-> <<>>, exc |-> e]

\* a handler of the run calls a plot function, between or after its client
\* calls: the thread is in the function until PlotReturn
ViewFrame(t) ==
    /\ pc[t] \in {"idle", "done"}
    /\ result[t].kind # "raised"
    /\ pc' = [pc EXCEPT ![t] = "plot"]
    /\ UNCHANGED <<api_key, client, now, requests_this_minute, minute_start,
                   cache, call, reqs, trace, resp, exc, reg, wake, data,
                   result, ncalls, obsStart, obsCount, hist, session_state, current_time,
                   sidebar>>

CreateAqiGauge(t, value) ==
    /\ rendered' = Render("create_aqi_gauge", value, AqiGauge(value))
    /\ ViewFrame(t)

GetAqiColor(t, value) ==
    /\ rendered' = Render("_get_aqi_color", value, AqiColor(value))
    /\ ViewFrame(t)


(***************************************************************************)
(* create_locations_map.  A location is its 'id' and its coordinates, a    *)
(* latest measurement its 'locationId', 'parameter' and 'value'; a key the *)
(* dict does not hold is None.                                             *)
(***************************************************************************)
MaxLocations == 2
MaxLatest == 2

Location(id, latitude, longitude, country, city) ==
    [id |-> id, latitude |-> latitude, longitude |-> longitude,
     country |-> country, city |-> city]

Measurement(locationId, parameter, value) ==
    [locationId |-> locationId, parameter |-> parameter, value |-> value]

LocationRecords ==
    {Location(id, c[1], c[2], None, None) :
        id \in {0, 1},
        c \in {<<Some(0), Some(10)>>, <<None, Some(10)>>, <<Some(52), None>>}}

MeasurementRecords ==
    {Measurement(id, Some(pv[1]), pv[2]) :
        id \in {None, Some(0), Some(1)},
        pv \in {<<"pm25", 500>>, <<"pm25", 501>>, <<"pm25", 4000>>,
                <<"no2", 500>>}}

SeqsUpTo(S, n) == UNION {[1..k -> S] : k \in 0..n}

\* lines 22-31: the measurements kept for the lookup, by index
Kept(latest_data) ==
    {i \in 1..Len(latest_data) :
        /\ TruthyInt(latest_data[i].locationId)
        /\ TruthyStr(latest_data[i].parameter)}

\* latest_lookup: per location id, per parameter, the last measurement kept
LatestLookup(latest_data) ==
    LET ids == {latest_data[i].locationId[1] : i \in Kept(latest_data)}
        Of(id) == {i \in Kept(latest_data) : latest_data[i].locationId[1] = id}
    IN  [id \in ids |->
            [p \in {latest_data[i].parameter[1] : i \in Of(id)} |->
                latest_data[CHOOSE i \in Of(id) :
                    /\ latest_data[i].parameter[1] = p
                    /\ \A j \in Of(id) :
                        latest_data[j].parameter[1] = p => j <= i]]]

\* lines 62-74
MarkerColor(location_id, latest_lookup) ==
    IF location_id \in DOMAIN latest_lookup
    THEN IF "pm25" \in DOMAIN latest_lookup[location_id]
         THEN AqiColor(latest_lookup[location_id]["pm25"].value)
         ELSE "green"
    ELSE "gray"

\* lines 33-40: a location without latitude or longitude is skipped
HasCoordinates(location) ==
    ~IsNone(location.latitude) /\ ~IsNone(location.longitude)

\* the CircleMarkers added to the map, in order: the location's id and the
\* marker's color
Markers(locations, latest_data) ==
    LET drawn == SelectSeq(locations, HasCoordinates)
    IN  [i \in 1..Len(drawn) |->
            [id |-> drawn[i].id,
             color |-> MarkerColor(drawn[i].id, LatestLookup(latest_data))]]

\* render_global_overview, app.py lines 181-183 and 218-219: the tab returns
\* before its plots when there are no locations
CreateLocationsMap(t, locations, latest_data) ==
    /\ Len(locations) > 0
    /\ rendered' = Render("create_locations_map", <<locations, latest_data>>,
                          Markers(locations, latest_data))
    /\ ViewFrame(t)

\* render_global_overview, app.py line 199:
\* len([loc for loc in locations if latest_data])
ActiveLocations(locations, latest_data) ==
    Len(SelectSeq(locations, LAMBDA loc : Len(latest_data) > 0))

\* lines 203 and 207: the distinct truthy values of a key of the locations
Countries(locations) ==
    Cardinality({locations[i].country[1] :
                    i \in {k \in 1..Len(locations) : TruthyStr(locations[k].country)}})

Cities(locations) ==
    Cardinality({locations[i].city[1] :
                    i \in {k \in 1..Len(locations) : TruthyStr(locations[k].city)}})

\* render_global_overview, app.py lines 192-208: the four st.metric calls for
\* the fetched locations and latest measurements (the tab returns before
\* them when locations is empty)
SummaryMetrics(t, locations, latest_data) ==
    /\ Len(locations) > 0
    /\ rendered' = Render("st.metric", <<locations, latest_data>>,
                          [total |-> Len(locations),
                           active |-> ActiveLocations(locations, latest_data),
                           countries |-> Countries(locations),
                           cities |-> Cities(locations)])
    /\ ViewFrame(t)

\* create_clustered_map, maps.py lines 187-247: the Markers added to the
\* cluster, in order: the location's id and the color of the marker's Icon
ClusterMarkers(locations, latest_data) ==
    LET drawn == SelectSeq(locations, HasCoordinates)
    IN  [i \in 1..Len(drawn) |->
            [id |-> drawn[i].id,
             color |-> IF drawn[i].id \in DOMAIN LatestLookup(latest_data)
                       THEN "green" ELSE "gray"]]

\* app.py lines 181-183 and 227-228
CreateClusteredMap(t, locations, latest_data) ==
    /\ Len(locations) > 0
    /\ rendered' = Render("create_clustered_map", <<locations, latest_data>>,
                          ClusterMarkers(locations, latest_data))
    /\ ViewFrame(t)

\* POLLUTANT_INFO, config.py lines 42-85
POLLUTANT_INFO ==
    [pm25 |-> [display_name |-> "PM2.5", units |-> "µg/m³", color |-> "#FF6B6B"],
     pm10 |-> [display_name |-> "PM10", units |-> "µg/m³", color |-> "#4ECDC4"],
     no2 |-> [display_name |-> "NO₂", units |-> "ppm", color |-> "#45B7D1"],
     o3 |-> [display_name |-> "O₃", units |-> "ppm", color |-> "#96CEB4"],
     co |-> [display_name |-> "CO", units |-> "ppm", color |-> "#FFEAA7"],
     so2 |-> [display_name |-> "SO₂", units |-> "ppm", color |-> "#DDA0DD"],
     bc |-> [display_name |-> "BC", units |-> "µg/m³", color |-> "#2C3E50"]]

\* POLLUTANT_INFO.get(parameter, {}).get(key, default) for a parameter the
\* table holds (the parameters of the measurements drawn all are)
PollutantInfo(parameter) == POLLUTANT_INFO[parameter]

\* create_heatmap, maps.py lines 118-123: per location id, the value of the
\* last measurement of the parameter
HeatLookup(latest_data, parameter) ==
    LET kept == {i \in 1..Len(latest_data) :
                    /\ TruthyInt(latest_data[i].locationId)
                    /\ latest_data[i].parameter = Some(parameter)}
        Of(id) == {i \in kept : latest_data[i].locationId[1] = id}
    IN  [id \in {latest_data[i].locationId[1] : i \in kept} |->
            latest_data[CHOOSE i \in Of(id) : \A j \in Of(id) : j <= i].value]

\* lines 126-136: [lat, lon, value] of each location that has coordinates
\* and a positive value in the lookup
HeatData(locations, latest_data, parameter) ==
    LET lookup == HeatLookup(latest_data, parameter)
        drawn == SelectSeq(locations,
                    LAMBDA loc : /\ HasCoordinates(loc)
                                 /\ loc.id \in DOMAIN lookup
                                 /\ lookup[loc.id] > 0)
    IN  [i \in 1..Len(drawn) |->
            <<drawn[i].latitude[1], drawn[i].longitude[1], lookup[drawn[i].id]>>]

\* create_heatmap, maps.py lines 106-164: the HeatMap layer is added when
\* there is data for it; app.py lines 181-183 and 220-226: the tab calls it
\* when there are locations
CreateHeatmap(t, locations, latest_data, parameter) ==
    /\ Len(locations) > 0
    /\ rendered' =
        Render("create_heatmap", <<locations, latest_data, parameter>>,
               [heat_data |-> HeatData(locations, latest_data, parameter),
                layer |-> HeatData(locations, latest_data, parameter) # <<>>,
                title |-> PollutantInfo(parameter).display_name
                            \o " Concentration Heatmap"])
    /\ ViewFrame(t)

RECURSIVE Ascending(_)
\* the numbers of a set, in ascending order
Ascending(S) ==
    IF S = {} THEN <<>>
    ELSE LET m == CHOOSE x \in S : \A y \in S : x <= y
         IN  <<m>> \o Ascending(S \ {m})

\* the keys of param_data in the order of their insertion: for each
\* parameter of the measurements taken, the index of its first measurement
GroupStarts(latest_data, taken) ==
    Ascending({i \in taken :
        \A j \in taken :
            latest_data[j].parameter = latest_data[i].parameter => i <= j})

\* param_data[param]: the indexes of the measurements of a group, in order
GroupOf(latest_data, taken, i) ==
    Ascending({j \in taken : latest_data[j].parameter = latest_data[i].parameter})

RECURSIVE SumValues(_, _)
\* sum(vals) of the values at the indexes
SumValues(latest_data, idx) ==
    IF Len(idx) = 0 THEN 0
    ELSE latest_data[idx[1]].value + SumValues(latest_data, Tail(idx))

\* sum(vals) / len(vals): the float is kept as the fraction it is
Mean(latest_data, idx) ==
    [total |-> SumValues(latest_data, idx), count |-> Len(idx)]

\* create_current_conditions_chart, charts.py lines 172-229: one bar per
\* parameter, at the average of its values
CurrentConditionsChart(latest_data) ==
    IF Len(latest_data) = 0
    THEN [annotation |-> "No current data available", bars |-> <<>>]
    ELSE LET taken == {i \in 1..Len(latest_data) :
                            TruthyStr(latest_data[i].parameter)}
             starts == GroupStarts(latest_data, taken)
         IN  [annotation |-> "",
              bars |-> [k \in 1..Len(starts) |->
                LET param == latest_data[starts[k]].parameter[1]
                IN  [x |-> PollutantInfo(param).display_name,
                     y |-> Mean(latest_data,
                                GroupOf(latest_data, taken, starts[k])),
                     marker_color |-> PollutantInfo(param).color]]]

\* render_current_conditions, app.py lines 248-255: the chart is drawn when
\* there are measurements
CreateCurrentConditionsChart(t, latest_data) ==
    /\ Len(latest_data) > 0
    /\ rendered' = Render("create_current_conditions_chart", latest_data,
                          CurrentConditionsChart(latest_data))
    /\ ViewFrame(t)

\* the average total / count, both in hundredths, is exactly between two
\* hundredths
IsTie(total, count) == (2 * total) % (2 * count) = count

\* f"{x:.2f}" of the float total / count, both in hundredths: the nearest
\* hundredth, written with two decimals.  Where the average is exactly
\* between two hundredths the code rounds the binary float it has computed,
\* which lies a little under or over the decimal value (7.025 gives 7.03,
\* 0.125 gives 0.12): the hundredths do not tell which, and tie_up says
\* whether the text is the upper one.
Format2f(total, count, tie_up) ==
    LET a == IF total < 0 THEN 0 - total ELSE total
        down == a \div count
        q == IF IsTie(a, count)
             THEN (IF tie_up THEN down + 1 ELSE down)
             ELSE (2 * a + count) \div (2 * count)
    IN  (IF total < 0 THEN "-" ELSE "")
            \o NatStr(q \div 100) \o "."
            \o DigitChars[((q \div 10) % 10) + 1] \o DigitChars[(q % 10) + 1]

\* min(values) and max(values) of the values at the indexes
MinValue(latest_data, idx) ==
    CHOOSE v \in {latest_data[idx[k]].value : k \in 1..Len(idx)} :
        \A k \in 1..Len(idx) : v <= latest_data[idx[k]].value

MaxOfValues(latest_data, idx) ==
    CHOOSE v \in {latest_data[idx[k]].value : k \in 1..Len(idx)} :
        \A k \in 1..Len(idx) : v >= latest_data[idx[k]].value

\* the selections st.session_state.selected_pollutants can hold
PollutantChoices == SUBSET {"pm25", "no2"}

\* the groups of param_data that are shown: the index of the first
\* measurement of each selected pollutant
ShownStarts(latest_data, selected_pollutants) ==
    GroupStarts(latest_data,
        {i \in 1..Len(latest_data) :
            /\ TruthyStr(latest_data[i].parameter)
            /\ latest_data[i].parameter[1] \in selected_pollutants})

\* render_current_conditions, app.py lines 261-299: per selected pollutant
\* of the measurements, in the order of param_data, the expander, its three
\* st.metric calls and whether the AQI gauge is drawn for the average;
\* tie_up[k] is the way the k-th average is rounded when it is a tie
PollutantDetails(latest_data, selected_pollutants, tie_up) ==
    LET taken == {i \in 1..Len(latest_data) :
                    /\ TruthyStr(latest_data[i].parameter)
                    /\ latest_data[i].parameter[1] \in selected_pollutants}
        starts == ShownStarts(latest_data, selected_pollutants)
    IN  [k \in 1..Len(starts) |->
            LET idx == GroupOf(latest_data, taken, starts[k])
                info == PollutantInfo(latest_data[starts[k]].parameter[1])
                avg_val == Mean(latest_data, idx)
            IN  [expander |-> info.display_name \o " - "
                                \o NatStr(Len(idx)) \o " measurements",
                 metrics |->
                    <<<<"Average " \o info.display_name,
                        Format2f(avg_val.total, avg_val.count, tie_up[k])
                            \o " " \o info.units>>,
                      <<"Minimum " \o info.display_name,
                        Format2f(MinValue(latest_data, idx), 1, FALSE)
                            \o " " \o info.units>>,
                      <<"Maximum " \o info.display_name,
                        Format2f(MaxOfValues(latest_data, idx), 1, FALSE)
                            \o " " \o info.units>>>>,
                 gauge |-> latest_data[starts[k]].parameter[1] = "pm25"]]

\* lines 248-250: the tab returns before its plots when there are no
\* measurements
PollutantMetrics(t, latest_data, selected_pollutants) ==
    /\ Len(latest_data) > 0
    /\ \E tie_up \in [1..Len(ShownStarts(latest_data, selected_pollutants))
                        -> BOOLEAN] :
            rendered' = Render("st.metric(pollutant)",
                               <<latest_data, selected_pollutants>>,
                               PollutantDetails(latest_data, selected_pollutants,
                                                tie_up))
    /\ ViewFrame(t)

(***************************************************************************)
(* The time series charts of render_historical_trends and                  *)
(* render_location_comparison.  A measurement of a series is its           *)
(* 'datetime' and 'value'; a key the dict does not hold is None.           *)
(***************************************************************************)
MaxSeries == 2

Point(datetime, value) == [datetime |-> datetime, value |-> value]

SeriesRecords ==
    {Point(d, v) : d \in {None, Some("2024-01-01T00:00:00Z")},
                   v \in {None, Some(500)}}

\* the measurements a handler passes on: 'if measurements:' keeps the empty
\* list out
SeriesData == SeqsUpTo(SeriesRecords, MaxSeries) \ {<<>>}

LocationNames == {"Site A (N/A)", "Site B (N/A)"}

\* a key is a column of pd.DataFrame(data) when one of the dicts holds it
HasColumn(series, key) == \E i \in 1..Len(series) : ~IsNone(series[i][key])

\* go.Scatter(x=df["datetime"], y=df["value"], ..., hovertemplate=... +
\* f"Value: %{y} {units}<br>" + ...), charts.py lines 43-55, 97-108 and
\* 148-159: the arguments are evaluated in order, a column the frame lacks
\* raises KeyError, and {y} in the f-string reads a variable y that the
\* function does not have
ScatterRaises(series) ==
    IF ~HasColumn(series, "datetime") \/ ~HasColumn(series, "value")
    THEN "KeyError"
    ELSE "NameError"

\* create_time_series_chart, charts.py lines 17-66, of the measurements
\* (its argument data)
TimeSeriesChart(series, parameter, location_name) ==
    IF Len(series) = 0
    THEN Render("create_time_series_chart",
                <<series, parameter, location_name>>,
                [annotation |-> "No data available"])
    ELSE RenderRaised("create_time_series_chart",
                      <<series, parameter, location_name>>,
                      ScatterRaises(series))

\* app.py lines 372-373 and 387-389: one chart per pollutant that has
\* measurements
CreateTimeSeriesChart(t, series, parameter, location_name) ==
    /\ Len(series) > 0
    /\ rendered' = TimeSeriesChart(series, parameter, location_name)
    /\ ViewFrame(t)

\* the indexes of the entries of a dict, kept as a sequence of <<key, data>>
\* in the order of insertion, that have data
WithData(entries) == {i \in 1..Len(entries) : Len(entries[i][2]) > 0}

FirstWithData(entries) ==
    CHOOSE i \in WithData(entries) : \A j \in WithData(entries) : i <= j

\* create_multi_pollutant_chart, charts.py lines 69-121: make_subplots asks
\* for at least one row; the loop skips a pollutant without data and raises
\* at the first one that has data
MultiPollutantChart(data_dict, location_name) ==
    IF Len(data_dict) = 0
    THEN RenderRaised("create_multi_pollutant_chart",
                      <<data_dict, location_name>>, "ValueError")
    ELSE IF WithData(data_dict) # {}
    THEN RenderRaised("create_multi_pollutant_chart",
                      <<data_dict, location_name>>,
                      ScatterRaises(data_dict[FirstWithData(data_dict)][2]))
    ELSE Render("create_multi_pollutant_chart", <<data_dict, location_name>>,
                [subplot_titles |->
                    [i \in 1..Len(data_dict) |->
                        PollutantInfo(data_dict[i][1]).display_name],
                 title |-> "Multi-Pollutant Analysis at " \o location_name,
                 height |-> 300 * Len(data_dict)])

\* app.py lines 393-395: the chart is asked for when more than one pollutant
\* has measurements
CreateMultiPollutantChart(t, data_dict, location_name) ==
    /\ Len(data_dict) > 1
    /\ rendered' = MultiPollutantChart(data_dict, location_name)
    /\ ViewFrame(t)

\* create_comparison_chart, charts.py lines 124-169, of locations_data kept
\* as a sequence of <<location_name, location_data.get(parameter, [])>>: the
\* loop skips a location without data and raises at the first one that has
\* data
ComparisonChart(locations_data, parameter) ==
    IF WithData(locations_data) # {}
    THEN RenderRaised("create_comparison_chart", <<locations_data, parameter>>,
                      ScatterRaises(locations_data[FirstWithData(locations_data)][2]))
    ELSE Render("create_comparison_chart", <<locations_data, parameter>>,
                [traces |-> 0,
                 title |-> PollutantInfo(parameter).display_name
                            \o " Comparison Across Locations"])

\* app.py lines 468-476: the chart is asked for when a location has
\* measurements
CreateComparisonChart(t, locations_data, parameter) ==
    /\ Len(locations_data) > 0
    /\ rendered' = ComparisonChart(locations_data, parameter)
    /\ ViewFrame(t)

\* the pollutants with measurements, as render_historical_trends collects
\* them in pollutant_data
PollutantData ==
    {<<<<p[1], d1>>, <<p[2], d2>>>> :
        p \in {<<"pm25", "no2">>, <<"no2", "pm25">>},
        d1 \in SeriesData, d2 \in {<<Point(Some("2024-01-01T00:00:00Z"), Some(500))>>}}

\* the locations with measurements, as render_location_comparison collects
\* them in locations_data
LocationsData ==
    {<<<<"Site A (N/A)", d>>>> : d \in SeriesData}
        \cup {<<<<"Site A (N/A)", d1>>, <<"Site B (N/A)", d2>>>> :
                d1 \in SeriesData,
                d2 \in {<<Point(Some("2024-01-01T00:00:00Z"), Some(500))>>}}

\* the exception of a plot function leaves the handler and run(), to main()
PlotRaise(t) ==
    /\ pc[t] = "plot"
    /\ rendered.exc # ""
    /\ result' = [result EXCEPT ![t] = Raised(rendered.exc)]
    /\ pc' = [pc EXCEPT ![t] = "done"]
    /\ rendered' = NoRender
    /\ UNCHANGED <<api_key, client, now, requests_this_minute, minute_start,
                   cache, call, reqs, trace, resp, exc, reg, wake, data,
                   ncalls, obsStart, obsCount, hist, session_state,
                   current_time, sidebar>>

\* the plot function returns to its handler, which goes on
PlotReturn(t) ==
    /\ pc[t] = "plot"
    /\ rendered.exc = ""
    /\ pc' = [pc EXCEPT ![t] = IF call[t].method = "" THEN "idle" ELSE "done"]
    /\ rendered' = NoRender
    /\ UNCHANGED <<api_key, client, now, requests_this_minute, minute_start,
                   cache, call, reqs, trace, resp, exc, reg, wake, data,
                   result, ncalls, obsStart, obsCount, hist, session_state,
                   current_time, sidebar>>

\* a handler of a run that got its client draws one of the plots of
\* render_global_overview, render_current_conditions,
\* render_historical_trends and render_location_comparison
Plot(t) ==
    /\ pc[t] \in {"idle", "done"}
    /\ \/ \E v \in Values : CreateAqiGauge(t, v)
       \/ \E v \in Values : GetAqiColor(t, v)
       \/ \E locations \in SeqsUpTo(LocationRecords, MaxLocations) :
            \E latest_data \in SeqsUpTo(MeasurementRecords, MaxLatest) :
                \/ CreateLocationsMap(t, locations, latest_data)
                \/ CreateClusteredMap(t, locations, latest_data)
                \/ \E parameter \in {"pm25", "no2"} :
                        CreateHeatmap(t, locations, latest_data, parameter)
                \/ SummaryMetrics(t, locations, latest_data)
       \/ \E latest_data \in SeqsUpTo(MeasurementRecords, MaxLatest) :
                \/ CreateCurrentConditionsChart(t, latest_data)
                \/ \E selected_pollutants \in PollutantChoices :
                        PollutantMetrics(t, latest_data, selected_pollutants)
       \/ \E location_name \in LocationNames :
                \/ \E series \in SeriesData : \E parameter \in {"pm25", "no2"} :
                        CreateTimeSeriesChart(t, series, parameter, location_name)
                \/ \E data_dict \in PollutantData :
                        CreateMultiPollutantChart(t, data_dict, location_name)
       \/ \E locations_data \in LocationsData : \E parameter \in {"pm25", "no2"} :
                CreateComparisonChart(t, locations_data, parameter)

NextPlots ==
    \/ \E t \in MainThreads : DashboardInit(t)
    \/ \E t \in MainThreads : SessionRerun(t)
    \/ \E t \in MainThreads : Plot(t)
    \/ \E t \in MainThreads : PlotReturn(t)
    \/ \E t \in MainThreads : PlotRaise(t)
    \/ \E t \in MainThreads : MainExcept(t)

SpecPlots == Init /\ [][NextPlots]_vars


\* how severe a category is: the index of its row in AQI_THRESHOLDS
Severity(category) ==
    CHOOSE i \in 1..Len(AQI_THRESHOLDS) : AQI_THRESHOLDS[i].category = category

\* the marker color of each row, in order of severity
RowColors == [i \in 1..Len(AQI_THRESHOLDS) |-> ColorMap(AQI_THRESHOLDS[i].color)]

ColorSeverity(color) ==
    IF \E i \in DOMAIN RowColors : RowColors[i] = color
    THEN CHOOSE i \in DOMAIN RowColors : RowColors[i] = color
    ELSE 0

(***************************************************************************)
(* C24: the PM2.5 banding is total and monotone: for every value v >= 0,   *)
(* at a resolution of 0.01, exactly one row of AQI_THRESHOLDS['pm25']      *)
(* satisfies min <= v <= max, so that neither create_aqi_gauge nor         *)
(* _get_aqi_color falls back to its default, and a larger value never maps *)
(* to a less severe category.                                              *)
(***************************************************************************)
C24_BandingTotalMonotone ==
    /\ (rendered.fn = "create_aqi_gauge" /\ rendered.input >= 0) =>
            /\ Cardinality(Matching(rendered.input)) = 1
            /\ rendered.out.category =
                    AQI_THRESHOLDS[FirstRow(rendered.input)].category
            /\ rendered.input > 0 =>
                    Severity(AqiGauge(rendered.input - 1).category)
                        <= Severity(rendered.out.category)
    /\ (rendered.fn = "_get_aqi_color" /\ rendered.input >= 0) =>
            /\ Cardinality(Matching(rendered.input)) = 1
            /\ rendered.out # "blue"
            /\ rendered.input > 0 =>
                    ColorSeverity(AqiColor(rendered.input - 1))
                        <= ColorSeverity(rendered.out)

(***************************************************************************)
(* C25: the gauge and the map classify alike: for every value v,           *)
(* create_aqi_gauge(v) and _get_aqi_color(v) pick the same row of          *)
(* AQI_THRESHOLDS['pm25'], negative values and values no row matches       *)
(* included.                                                               *)
(***************************************************************************)
C25_GaugeAndMapAgree ==
    /\ rendered.fn = "create_aqi_gauge" =>
            ColorMap(rendered.out.color) = AqiColor(rendered.input)
    /\ rendered.fn = "_get_aqi_color" =>
            rendered.out = ColorMap(AqiGauge(rendered.input).color)


\* the latest measurements of location id, by index, and those of them for pm25
MeasuredAt(latest_data, id) ==
    {j \in 1..Len(latest_data) : latest_data[j].locationId = Some(id)}

Pm25At(latest_data, id) ==
    {j \in MeasuredAt(latest_data, id) : latest_data[j].parameter = Some("pm25")}

(***************************************************************************)
(* C26: create_locations_map draws one marker per location that has a      *)
(* latitude and a longitude and none for the others; the marker is 'gray'  *)
(* exactly when no latest measurement with the location's id exists,       *)
(* 'green' when measurements exist but none for pm25, and has the AQI      *)
(* color of the pm25 value otherwise; this holds for every location id,    *)
(* 0 included.                                                             *)
(***************************************************************************)
C26_MarkerColor ==
    rendered.fn = "create_locations_map" =>
        LET locations == rendered.input[1]
            latest_data == rendered.input[2]
            drawn == SelectSeq(locations, HasCoordinates)
        IN  /\ Len(rendered.out) = Len(drawn)
            /\ \A i \in 1..Len(rendered.out) :
                LET id == drawn[i].id
                    color == rendered.out[i].color
                IN  /\ rendered.out[i].id = id
                    /\ color = "gray" <=> MeasuredAt(latest_data, id) = {}
                    /\ (MeasuredAt(latest_data, id) # {}
                            /\ Pm25At(latest_data, id) = {}) => color = "green"
                    /\ Pm25At(latest_data, id) # {} =>
                        \E j \in Pm25At(latest_data, id) :
                            color = AqiColor(latest_data[j].value)

(***************************************************************************)
(* C27: the metric 'Active Locations' is the number of fetched locations   *)
(* that have at least one record in the latest measurements; it can lie    *)
(* strictly between 0 and 'Total Locations'.                               *)
(***************************************************************************)
C27_ActiveLocations ==
    rendered.fn = "st.metric" =>
        LET locations == rendered.input[1]
            latest_data == rendered.input[2]
        IN  /\ rendered.out.total = Len(locations)
            /\ rendered.out.active =
                Cardinality({i \in 1..Len(locations) :
                    MeasuredAt(latest_data, locations[i].id) # {}})


(***************************************************************************)
(* render_sidebar, app.py lines 96-169.  After the 'Refresh Data' button   *)
(* (RefreshData, StampRefresh) the sidebar calls get_countries, offers the *)
(* countries, calls get_cities for a country picked, offers the cities,    *)
(* the pollutants and the time range, reads the clock for date_from and    *)
(* date_to, and stores the selections in st.session_state.  A datetime is  *)
(* its seconds on the clock of 'now', whose origin is a midnight; a date   *)
(* picked in st.date_input is a whole number of days from that origin.  An *)
(* item of a result list stands for the dict whose 'name' it is.           *)
(***************************************************************************)
MaxDayOffset == 2
MaxSidebarCalls == 2
MaxSidebarTime == 60

TimeRanges == {"Last 24 Hours", "Last 7 Days", "Last 30 Days", "Custom Range"}

\* the dates the two st.date_input widgets can return
PickedDays == (0 - MaxDayOffset)..MaxDayOffset

\* what the multiselect of lines 127-132 can return: its default or a pick
PollutantSelections == {<<"pm25", "pm10", "no2">>, <<"pm25">>}

\* timedelta(days=n), in seconds
TimeDelta(days) == days * 86400

\* datetime.combine(date, datetime.min.time())
Midnight(day) == day * 86400

\* the outcomes drawn for the GETs of the sidebar
SidebarOutcomes ==
    {GetRaises,
     Response(200, None, BodyResults(<<"r1">>)),
     Response(200, None, BodyArray)}

\* ['All ...'] + [c.get('name', '') for c in items if c.get('name')],
\* lines 113 and 121
Names(all, items) == <<all>> \o SelectSeq(items, LAMBDA name : name # "")

\* the options a selectbox offers
Options(names) == {names[i] : i \in 1..Len(names)}

\* a step of render_sidebar that changes its local variables only
SidebarFrame(t) ==
    /\ pc[t] = "done"
    /\ result[t].kind = "list"
    /\ UNCHANGED <<api_key, client, now, requests_this_minute, minute_start,
                   cache, pc, call, reqs, trace, resp, exc, reg, wake, data,
                   result, ncalls, obsStart, obsCount, hist, session_state,
                   rendered, current_time>>

\* a client call of the sidebar; at most MaxSidebarCalls are made
SidebarCall(t, c) ==
    /\ ncalls < MaxSidebarCalls
    /\ CallMethod(t, c)
    /\ ncalls' = ncalls + 1
    /\ UNCHANGED hist

\* line 112: countries = self.client.get_countries(), the first client call
\* of the run
SidebarCountries(t) ==
    /\ pc[t] = "idle"
    /\ sidebar[t].at = ""
    /\ SidebarCall(t, Call("get_countries", <<>>))

\* lines 113-114: the country is picked among the countries returned
SelectCountry(t, selected_country) ==
    /\ sidebar[t].at = ""
    /\ call[t].method = "get_countries"
    /\ SidebarFrame(t)
    /\ selected_country \in Options(Names("All Countries", result[t].value))
    /\ sidebar' = [sidebar EXCEPT ![t].at = "country",
                                  ![t].selected_country = selected_country]

\* lines 118-119: cities = self.client.get_cities(selected_country) when a
\* country was picked
SidebarCities(t) ==
    /\ pc[t] = "done"
    /\ sidebar[t].at = "country"
    /\ call[t].method = "get_countries"
    /\ sidebar[t].selected_country # "All Countries"
    /\ SidebarCall(t, Call("get_cities", <<Some(sidebar[t].selected_country)>>))

\* lines 117-122: the city is picked among the cities returned, which are
\* none when no country was picked
SelectCity(t, selected_city) ==
    /\ sidebar[t].at = "country"
    /\ SidebarFrame(t)
    /\ IF sidebar[t].selected_country = "All Countries"
       THEN selected_city = "All Cities"
       ELSE /\ call[t].method = "get_cities"
            /\ selected_city \in Options(Names("All Cities", result[t].value))
    /\ sidebar' = [sidebar EXCEPT ![t].at = "city",
                                  ![t].selected_city = selected_city]

\* lines 125-139: the pollutants and the time range are picked
SelectTimeRange(t, selected_pollutants, time_range) ==
    /\ sidebar[t].at = "city"
    /\ SidebarFrame(t)
    /\ sidebar' = [sidebar EXCEPT ![t].at = "date_from",
                                  ![t].selected_pollutants = selected_pollutants,
                                  ![t].time_range = time_range]

\* line 141: date_from = datetime.now() - timedelta(days=1)
ReadDateFrom(t) ==
    /\ sidebar[t].at = "date_from"
    /\ SidebarFrame(t)
    /\ sidebar' = [sidebar EXCEPT ![t].at = "date_to",
                                  ![t].date_from = now - TimeDelta(1)]

\* line 142: date_to = datetime.now()
ReadDateTo(t) ==
    /\ sidebar[t].at = "date_to"
    /\ SidebarFrame(t)
    /\ sidebar' = [sidebar EXCEPT ![t].at = "range", ![t].date_to = now]

\* lines 144-155: date_from is read anew for 7 and 30 days; under 'Custom
\* Range' the two dates picked replace date_from and date_to
ApplyTimeRange(t, from_day, to_day) ==
    /\ sidebar[t].at = "range"
    /\ SidebarFrame(t)
    /\ sidebar' = [sidebar EXCEPT
            ![t].at = "store",
            ![t].date_from =
                CASE sidebar[t].time_range = "Last 7 Days" -> now - TimeDelta(7)
                  [] sidebar[t].time_range = "Last 30 Days" -> now - TimeDelta(30)
                  [] sidebar[t].time_range = "Custom Range" -> Midnight(from_day)
                  [] OTHER -> @,
            ![t].date_to =
                IF sidebar[t].time_range = "Custom Range"
                THEN Midnight(to_day) ELSE @]

\* the dates picked matter under 'Custom Range' only
DatePicks(t) ==
    IF sidebar[t].time_range = "Custom Range" THEN PickedDays ELSE {0}

\* lines 158-162: the selections are stored in st.session_state
StoreSelections(t) ==
    /\ sidebar[t].at = "store"
    /\ pc[t] = "done"
    /\ session_state' = [session_state EXCEPT
            ![t].selected_country =
                IF sidebar[t].selected_country # "All Countries"
                THEN Some(sidebar[t].selected_country) ELSE None,
            ![t].selected_city =
                IF sidebar[t].selected_city # "All Cities"
                THEN Some(sidebar[t].selected_city) ELSE None,
            ![t].selected_pollutants = Some(sidebar[t].selected_pollutants),
            ![t].date_from = Some(sidebar[t].date_from),
            ![t].date_to = Some(sidebar[t].date_to)]
    /\ sidebar' = [sidebar EXCEPT ![t].at = "stored"]
    /\ UNCHANGED <<api_key, client, now, requests_this_minute, minute_start,
                   cache, pc, call, reqs, trace, resp, exc, reg, wake, data,
                   result, ncalls, obsStart, obsCount, hist, rendered,
                   current_time>>

\* the steps of render_sidebar between its client calls
SidebarStep(t) ==
    /\ pc[t] = "done"
    /\ \/ \E selected_country \in {"All Countries", "r1"} :
            SelectCountry(t, selected_country)
       \/ \E selected_city \in {"All Cities", "r1"} : SelectCity(t, selected_city)
       \/ \E selected_pollutants \in PollutantSelections :
            \E time_range \in TimeRanges :
                SelectTimeRange(t, selected_pollutants, time_range)
       \/ ReadDateFrom(t)
       \/ ReadDateTo(t)
       \/ \E from_day \in DatePicks(t) : \E to_day \in DatePicks(t) :
            ApplyTimeRange(t, from_day, to_day)
       \/ StoreSelections(t)

\* the script runs again after a run that rendered its sidebar, or that
\* ended before it
SidebarRerun(t) ==
    /\ sidebar[t].at = "stored" \/ pc[t] \in {"stopped", "failed"}
    /\ SessionRerun(t)

\* time passes while the sidebar is rendered, up to MaxSidebarTime
SidebarTick(d) == now + d <= MaxSidebarTime /\ Tick(d)

NextSidebar ==
    \/ \E t \in MainThreads : DashboardInit(t)
    \/ \E t \in MainThreads : SidebarRerun(t)
    \/ \E t \in MainThreads : RefreshData(t)
    \/ \E t \in MainThreads : StampRefresh(t)
    \/ \E t \in MainThreads : SidebarCountries(t)
    \/ \E t \in MainThreads : SidebarCities(t)
    \/ \E t \in MainThreads : QueryStep(t)
    \/ \E t \in MainThreads : \E o \in SidebarOutcomes : Receive(t, o)
    \/ \E t \in MainThreads : MainExcept(t)
    \/ \E t \in MainThreads : SidebarStep(t)
    \/ \E d \in Ticks : SidebarTick(d)

SpecSidebar == Init /\ [][NextSidebar]_vars

(***************************************************************************)
(* C28: after render_sidebar has run, st.session_state.date_from is not    *)
(* later than st.session_state.date_to, for every choice of the time       *)
(* range, 'Custom Range' with any pair of dates included.                  *)
(***************************************************************************)
C28_DateFromBeforeDateTo ==
    \A t \in MainThreads :
        ~IsNone(session_state[t].date_from) =>
            session_state[t].date_from[1] <= session_state[t].date_to[1]
=============================================================================
